---- MODULE Spec2Model ----
(***************************************************************************)
(* The annotation engine of the contract-review service: the redaction     *)
(* pipeline (redactText / restoreText) and the flagging pipeline           *)
(* (flagSensitiveContent).                                                 *)
(*                                                                         *)
(* A JavaScript string is a sequence of one-character strings; offsets are *)
(* 0-based as in the source, so the character at offset i is s[i+1].       *)
(* A regular expression is modelled by the finite set of strings of its    *)
(* language that occur in the documents in scope (documents are built from *)
(* the phrases below, each ending in ";", a character no pattern accepts), *)
(* together with its \b anchors; exec is the leftmost search from          *)
(* lastIndex.                                                              *)
(***************************************************************************)
EXTENDS Integers, Sequences, FiniteSets, TLC

VARIABLES doc, lastIndex, call

vars == <<doc, lastIndex, call>>

(***************************************************************************)
(* Bounds.                                                                 *)
(***************************************************************************)
\* Longest document, in phrases, handed to the redaction pipeline.
MaxPhrases == 2

\* Longest document, in phrases, handed to the flagging pipeline.
MaxFlagPhrases == 3

(***************************************************************************)
(* JavaScript values and string primitives.                                *)
(***************************************************************************)
UPPERCASE == <<"A","B","C","D","E","F","G","H","I","J","K","L","M","N","O","P","Q","R","S","T","U","V","W","X","Y","Z">>
LOWERCASE == <<"a","b","c","d","e","f","g","h","i","j","k","l","m","n","o","p","q","r","s","t","u","v","w","x","y","z">>
DIGITS == <<"0","1","2","3","4","5","6","7","8","9">>

Range(s) == {s[i] : i \in DOMAIN s}

Max(a, b) == IF a >= b THEN a ELSE b
Min(a, b) == IF a <= b THEN a ELSE b
Abs(a) == IF a >= 0 THEN a ELSE 0 - a
MinOf(S) == CHOOSE x \in S : \A y \in S : x <= y

\* \d and \w of the regular-expression engine, \s likewise.
DigitChars == Range(DIGITS)
WordChars == Range(DIGITS) \cup Range(UPPERCASE) \cup Range(LOWERCASE) \cup {"_"}
SpaceChars == {" ", "\t", "\n", "\r"}
IsDigit(c) == c \in DigitChars
IsWordChar(c) == c \in WordChars
IsSpace(c) == c \in SpaceChars

\* String.prototype.toLowerCase, one character and a whole string.
LowerChar(c) ==
  IF c \in Range(UPPERCASE)
  THEN LOWERCASE[CHOOSE i \in DOMAIN UPPERCASE : UPPERCASE[i] = c]
  ELSE c
toLowerCase(s) == [i \in DOMAIN s |-> LowerChar(s[i])]

\* s.slice(a, b) and s.slice(a) for 0 <= a: offsets beyond the end are clamped.
slice(s, a, b) == SubSeq(s, Min(a, Len(s)) + 1, Min(b, Len(s)))
sliceFrom(s, a) == SubSeq(s, Min(a, Len(s)) + 1, Len(s))

\* s.indexOf(sub): the first offset at which sub occurs in s, or -1.
indexOf(s, sub) ==
  LET at == {i \in 0..(Len(s) - Len(sub)) : SubSeq(s, i + 1, i + Len(sub)) = sub}
  IN IF at = {} THEN -1 ELSE MinOf(at)

\* s.includes(sub)
includes(s, sub) == indexOf(s, sub) >= 0

\* s.replace(/\D/g, ''): the digits of s, in order.
RECURSIVE stripNonDigits(_)
stripNonDigits(s) ==
  IF s = <<>> THEN <<>>
  ELSE (IF IsDigit(s[1]) THEN <<s[1]>> ELSE <<>>) \o stripNonDigits(Tail(s))

\* parseInt(c, 10) of one digit character.
DigitValue(c) == (CHOOSE i \in DOMAIN DIGITS : DIGITS[i] = c) - 1

\* parseInt(digits, 10) of a string of digits.
RECURSIVE parseInt(_)
parseInt(digits) ==
  IF digits = <<>> THEN 0
  ELSE 10 * parseInt(SubSeq(digits, 1, Len(digits) - 1)) + DigitValue(digits[Len(digits)])

\* The decimal numeral of a natural number, as `${n}` prints it.
RECURSIVE numeral(_)
numeral(n) ==
  IF n < 10 THEN <<DIGITS[n + 1]>>
  ELSE numeral(n \div 10) \o <<DIGITS[(n % 10) + 1]>>

\* The text argument of a call: a string or one of the non-string values.
JsString(s) == [t |-> "string", s |-> s]
JsNull == [t |-> "null"]
JsUndefined == [t |-> "undefined"]
JsNumber(n) == [t |-> "number", n |-> n]

\* !!v and typeof v
Truthy(v) ==
  CASE v.t = "string" -> v.s # <<>>
    [] v.t = "number" -> v.n # 0
    [] OTHER -> FALSE
TypeOf(v) == IF v.t = "null" THEN "object" ELSE v.t

\* A property that may be missing from an options object: <<>> is undefined,
\* <<x>> is the value x; a destructuring default applies to undefined.
Default(o, d) == IF o = <<>> THEN d ELSE o[1]

\* A plain object: its keys in insertion order and their values.
EmptyObject == [keys |-> <<>>, val |-> [k \in {} |-> 0]]
Has(o, k) == k \in Range(o.keys)
Get(o, k, d) == IF Has(o, k) THEN o.val[k] ELSE d
Put(o, k, v) ==
  [keys |-> IF Has(o, k) THEN o.keys ELSE Append(o.keys, k),
   val |-> [x \in Range(o.keys) \cup {k} |-> IF x = k THEN v ELSE o.val[x]]]

(***************************************************************************)
(* The pattern catalog (REDACTION_PATTERNS).  Type names are strings of    *)
(* the program, so they are character sequences here.                      *)
(***************************************************************************)
SSN == <<"S","S","N">>
CREDIT_CARD == <<"C","R","E","D","I","T","_","C","A","R","D">>
BANK_ACCOUNT == <<"B","A","N","K","_","A","C","C","O","U","N","T">>
ROUTING_NUMBER == <<"R","O","U","T","I","N","G","_","N","U","M","B","E","R">>
IBAN == <<"I","B","A","N">>
MRN == <<"M","R","N">>
SALARY == <<"S","A","L","A","R","Y">>
EMAIL == <<"E","M","A","I","L">>
PHONE == <<"P","H","O","N","E">>
DATE == <<"D","A","T","E">>
IP_ADDRESS == <<"I","P","_","A","D","D","R","E","S","S">>
ADDRESS == <<"A","D","D","R","E","S","S">>
TITLE_NAME == <<"T","I","T","L","E","_","N","A","M","E">>

\* The phrases a document handed to the redaction pipeline is made of.
DatedAddress == <<"1","/","2","/","2","0"," ","A","b"," ","S","t",";">>
MailAndTicket == <<"a","@","b",".","c","o","#","7",";">>
PlaceholderLiteral == <<"[","R","E","D","A","C","T","E","D",":","E","M","A","I","L","#","1","]",";">>
TitledName == <<"D","r"," ","C","d"," ","a","@","b",".","c","o",";">>
DottedQuad == <<"1",".","2",".","3",".","4","4",";">>
EightDigits == <<"1","2","3","4","5","6","7","8",";">>
CardNumber == <<"4","1","1","1","1","1","1","1","1","1","1","1","1","1","1","1",";">>
InvalidCardNumber == <<"4","5","3","2","0","1","5","1","1","2","8","3","0","3","6","7",";">>
SuiteCard == <<"2","0"," ","A","b"," ","S","t"," ","#","4","1","1","1","1","1","1","1","1","1","1","1","1","1","1","1",";">>
Phrases ==
  <<DatedAddress, MailAndTicket, PlaceholderLiteral, TitledName, DottedQuad, EightDigits,
    CardNumber, InvalidCardNumber>>

\* A compiled pattern: the regex object's identity (its lastIndex lives in the
\* variable lastIndex), the strings of its language that occur in documents
\* made of Phrases or of CustomPhrases, and whether it opens / closes with \b.  All carry the g flag.
Regex(id, words, bStart, bEnd) == [id |-> id, words |-> words, bStart |-> bStart, bEnd |-> bEnd]

\* /\b\d{3}-\d{2}-\d{4}\b/g
SsnRegex == Regex(1, {}, TRUE, TRUE)
\* /\b\d{4}[\s-]?\d{4}[\s-]?\d{4}[\s-]?\d{4}\b/g
CreditCardRegex ==
  Regex(2, {<<"4","1","1","1","1","1","1","1","1","1","1","1","1","1","1","1">>,
            <<"4","5","3","2","0","1","5","1","1","2","8","3","0","3","6","7">>}, TRUE, TRUE)
\* /\b(?:account\s*(?:number|#|no\.?)?[\s:]*)?(\d{8,17})\b/gi
BankAccountRegex ==
  Regex(3, {<<"1","2","3","4","5","6","7","8">>,
            <<"4","1","1","1","1","1","1","1","1","1","1","1","1","1","1","1">>,
            <<"4","5","3","2","0","1","5","1","1","2","8","3","0","3","6","7">>}, TRUE, TRUE)
\* /\b(?:routing\s*(?:number|#|no\.?)?[\s:]*)?(\d{9})\b/gi
RoutingNumberRegex == Regex(4, {}, TRUE, TRUE)
\* /\b[A-Z]{2}\d{2}[A-Z0-9]{4}\d{7}([A-Z0-9]?){0,16}\b/g
IbanRegex == Regex(5, {}, TRUE, TRUE)
\* /\b(?:MRN|medical\s*record\s*(?:number|#|no\.?)?|patient\s*(?:id|number|#))[\s:]*([A-Z0-9]{6,12})\b/gi
MrnRegex == Regex(6, {}, TRUE, TRUE)
\* /\b(?:salary|compensation|annual\s*(?:pay|income|wage)|...)[\s:]*\$?\s*[\d,]+(?:\.\d{2})?\s*(?:per\s*(?:year|...))?\b/gi
SalaryKeywordRegex == Regex(7, {}, TRUE, TRUE)
\* /\$\s*[\d,]+(?:\.\d{2})?\s*(?:per\s*(?:year|annum|hour|month|week)|\/\s*(?:yr|hr|mo|wk)|annually|monthly|hourly)\b/gi
SalaryAmountRegex == Regex(8, {}, FALSE, TRUE)
\* /\b(?:earns?|paid|paying|receives?|making)\s*\$\s*[\d,]+(?:\.\d{2})?\b/gi
SalaryVerbRegex == Regex(9, {}, TRUE, TRUE)
\* /\b[A-Za-z0-9._%+-]+@[A-Za-z0-9.-]+\.[A-Za-z]{2,}\b/g
EmailRegex == Regex(10, {<<"a","@","b",".","c","o">>}, TRUE, TRUE)
\* /(?:\+\d{1,3}[\s.-]?)?\(?\d{3}\)?[\s.-]?\d{3}[\s.-]?\d{4}|\+\d{1,3}[\s\d.-]{9,15}/g
PhoneRegex ==
  Regex(11, {<<"4","1","1","1","1","1","1","1","1","1">>,
             <<"4","5","3","2","0","1","5","1","1","2">>}, FALSE, FALSE)
\* /\b(0?[1-9]|1[0-2])[-\/\.](0?[1-9]|[12]\d|3[01])[-\/\.](\d{2,4})\b/g
DateRegex == Regex(12, {<<"1","/","2","/","2","0">>, <<"2",".","3",".","4","4">>}, TRUE, TRUE)
\* /\b(?:(?:25[0-5]|2[0-4][0-9]|[01]?[0-9][0-9]?)\.){3}(?:25[0-5]|2[0-4][0-9]|[01]?[0-9][0-9]?)\b/g
IpAddressRegex == Regex(13, {<<"1",".","2",".","3",".","4","4">>}, TRUE, TRUE)
\* /\b\d{1,6}\s+(?:[A-Z][a-z]+\s+){1,3}(Street|St|...|Pl)(?:\s+(?:Apt|Unit|Suite|Ste|#)\.?\s*\w+)?\b/gi
AddressRegex ==
  Regex(14, {<<"2","0"," ","A","b"," ","S","t">>,
             <<"2","0"," ","A","b"," ","S","t"," ","#","4","1","1","1","1","1","1","1","1","1","1","1","1","1","1","1">>}, TRUE, TRUE)
\* /\b(Mr|Ms|Mrs|Dr|Prof|Rev)\.?\s+[A-Z][a-z]+(?:\s+[A-Z]\.?)?(?:\s+[A-Z][a-z]+)?\b/g
TitleNameRegex == Regex(15, {<<"D","r"," ","C","d">>}, TRUE, TRUE)

Pattern(type, regex, priority, confidence, validator) ==
  [type |-> type, regex |-> regex, priority |-> priority,
   confidence |-> confidence, validator |-> validator]

\* validator is the name of the validator function, "" when the pattern has none.
REDACTION_PATTERNS ==
  << Pattern(SSN, SsnRegex, 10, "high", ""),
     Pattern(CREDIT_CARD, CreditCardRegex, 9, "high", "luhnCheck"),
     Pattern(BANK_ACCOUNT, BankAccountRegex, 9, "medium", "validateBankAccount"),
     Pattern(ROUTING_NUMBER, RoutingNumberRegex, 9, "medium", "validateRoutingNumber"),
     Pattern(IBAN, IbanRegex, 9, "high", ""),
     Pattern(MRN, MrnRegex, 9, "high", ""),
     Pattern(SALARY, SalaryKeywordRegex, 8, "high", ""),
     Pattern(SALARY, SalaryAmountRegex, 8, "high", ""),
     Pattern(SALARY, SalaryVerbRegex, 8, "medium", ""),
     Pattern(EMAIL, EmailRegex, 8, "high", ""),
     Pattern(PHONE, PhoneRegex, 7, "high", "validatePhone"),
     Pattern(DATE, DateRegex, 6, "medium", ""),
     Pattern(IP_ADDRESS, IpAddressRegex, 5, "high", ""),
     Pattern(ADDRESS, AddressRegex, 4, "medium", ""),
     Pattern(TITLE_NAME, TitleNameRegex, 3, "medium", "") >>

\* addCustomPattern(type, regex, options): options.priority || 1,
\* options.confidence || 'low', options.validator.
addCustomPattern(type, regex, options) ==
  Pattern(type, regex,
          IF options.priority = <<>> \/ options.priority[1] = 0 THEN 1 ELSE options.priority[1],
          IF options.confidence = <<>> \/ options.confidence[1] = "" THEN "low" ELSE options.confidence[1],
          Default(options.validator, ""))

\* Two caller-supplied patterns:
\*   addCustomPattern('NAME', /Cd/g, { priority: 8, confidence: 'high' })
\*   addCustomPattern('TICKET', /#\d+/g)
NAME == <<"N","A","M","E">>
TICKET == <<"T","I","C","K","E","T">>
NamePattern ==
  addCustomPattern(NAME, Regex(16, {<<"C","d">>}, FALSE, FALSE),
                   [priority |-> <<8>>, confidence |-> <<"high">>, validator |-> <<>>])
TicketPattern ==
  addCustomPattern(TICKET, Regex(17, {<<"#","1">>, <<"#","7">>}, FALSE, FALSE),
                   [priority |-> <<>>, confidence |-> <<>>, validator |-> <<>>])

\* Three more patterns callers supplied:
\*   addCustomPattern('Email', /Cd/g, { priority: 8, confidence: 'high' })
\*   addCustomPattern('TICKET', /#\d+/g, { validator: checkTicket })
\*   addCustomPattern('TICKET', '#\\d+'), the matcher a string and no RegExp
Email == <<"E","m","a","i","l">>
MailboxPattern ==
  addCustomPattern(Email, Regex(18, {<<"C","d">>}, FALSE, FALSE),
                   [priority |-> <<8>>, confidence |-> <<"high">>, validator |-> <<>>])
CheckedTicketPattern ==
  addCustomPattern(TICKET,
                   Regex(19, {<<"#","1">>, <<"#","7">>,
                              <<"#","4","1","1","1","1","1","1","1","1","1","1","1","1","1","1","1">>},
                         FALSE, FALSE),
                   [priority |-> <<>>, confidence |-> <<>>, validator |-> <<"checkTicket">>])
MalformedPattern ==
  addCustomPattern(TICKET, JsString(<<"#","\\","d","+">>),
                   [priority |-> <<>>, confidence |-> <<>>, validator |-> <<>>])

\* The regex objects that live across calls.
RegexIds == 1..21

(***************************************************************************)
(* Validators.                                                             *)
(***************************************************************************)
\* The loop of luhnCheck from index i down to 0 (here i down to 1).
RECURSIVE luhnSum(_, _, _)
luhnSum(digits, i, isEven) ==
  IF i < 1 THEN 0
  ELSE LET digit == DigitValue(digits[i])
           doubled == IF digit * 2 > 9 THEN digit * 2 - 9 ELSE digit * 2
       IN (IF isEven THEN doubled ELSE digit) + luhnSum(digits, i - 1, ~isEven)

\* Variant of luhnCheck whose loop starts with isEven = true, doubling the
\* rightmost digit.
luhnCheckFromRightmost(cardNumber) ==
  LET digits == stripNonDigits(cardNumber)
  IN IF Len(digits) < 13 \/ Len(digits) > 19 THEN FALSE
     ELSE luhnSum(digits, Len(digits), TRUE) % 10 = 0

luhnCheck(cardNumber) ==
  LET digits == stripNonDigits(cardNumber)
  IN IF Len(digits) < 13 \/ Len(digits) > 19 THEN FALSE
     ELSE luhnSum(digits, Len(digits), FALSE) % 10 = 0

validatePhone(phone) ==
  LET digits == stripNonDigits(phone)
  IN Len(digits) >= 10 /\ Len(digits) <= 15

validateBankAccount(match) ==
  LET digits == stripNonDigits(match)
      lowerMatch == toLowerCase(match)
  IN IF Len(digits) < 8 \/ Len(digits) > 17 THEN FALSE
     ELSE IF Len(digits) = 4 /\ parseInt(digits) >= 1900 /\ parseInt(digits) <= 2100 THEN FALSE
     ELSE IF Len(digits) = 5 THEN FALSE
     ELSE IF includes(lowerMatch, <<"a","c","c","o","u","n","t">>)
             \/ includes(lowerMatch, <<"a","c","c","t">>) THEN TRUE
     ELSE Len(digits) >= 10

\* Variant of validateRoutingNumber with the weights 7, 3, 1 for 3, 7, 1.
validateRoutingNumberSwapped(match) ==
  LET digits == stripNonDigits(match)
      lowerMatch == toLowerCase(match)
      hasContext == includes(lowerMatch, <<"r","o","u","t","i","n","g">>)
                    \/ includes(lowerMatch, <<"a","b","a">>)
      d == [i \in DOMAIN digits |-> DigitValue(digits[i])]
  IN IF Len(digits) # 9 THEN FALSE
     ELSE hasContext
          \/ (7 * (d[1] + d[4] + d[7]) + 3 * (d[2] + d[5] + d[8]) + (d[3] + d[6] + d[9])) % 10 = 0

validateRoutingNumber(match) ==
  LET digits == stripNonDigits(match)
      lowerMatch == toLowerCase(match)
      hasContext == includes(lowerMatch, <<"r","o","u","t","i","n","g">>)
                    \/ includes(lowerMatch, <<"a","b","a">>)
      d == [i \in DOMAIN digits |-> DigitValue(digits[i])]
  IN IF Len(digits) # 9 THEN FALSE
     ELSE hasContext
          \/ (3 * (d[1] + d[4] + d[7]) + 7 * (d[2] + d[5] + d[8]) + (d[3] + d[6] + d[9])) % 10 = 0

\* A validator a caller wrote for ticket numbers, which does not expect
\* ticket 7:  t => { if (t === '#7') throw new RangeError(t); return true; }
checkTicketThrows(ticket) == ticket = <<"#","7">>
checkTicket(ticket) == TRUE

\* pattern.validator(original) throws instead of returning.
Throws(validator, original) ==
  validator = "checkTicket" /\ checkTicketThrows(original)

\* pattern.validator(original)
CallValidator(validator, original) ==
  CASE validator = "luhnCheck" -> luhnCheck(original)
    [] validator = "validatePhone" -> validatePhone(original)
    [] validator = "validateBankAccount" -> validateBankAccount(original)
    [] validator = "validateRoutingNumber" -> validateRoutingNumber(original)
    [] validator = "checkTicket" -> checkTicket(original)

(***************************************************************************)
(* Scanning: regex.exec and findMatches.                                   *)
(***************************************************************************)
\* \b at offset i of text: exactly one of the characters around it is a word character.
WordBoundary(text, i) ==
  (i >= 1 /\ IsWordChar(text[i])) # (i < Len(text) /\ IsWordChar(text[i + 1]))

\* The strings of the pattern's language that match text at offset i.
MatchesAt(regex, text, i) ==
  {w \in regex.words :
     /\ i + Len(w) <= Len(text)
     /\ w # <<>> => text[i + 1] = w[1]
     /\ SubSeq(text, i + 1, i + Len(w)) = w
     /\ regex.bStart => WordBoundary(text, i)
     /\ regex.bEnd => WordBoundary(text, i + Len(w))}

\* regex.exec(text) with the g flag: the leftmost match at or after lastIndex,
\* after which lastIndex is the match's end; on failure lastIndex is reset to 0.
\* A match and the lastIndex it leaves: the offset of its end.
withLastIndex(match) == [match |-> match, lastIndex |-> match.index + Len(match.str)]

RECURSIVE firstMatch(_, _, _)
firstMatch(regex, text, i) ==
  IF i > Len(text) THEN -1
  ELSE IF MatchesAt(regex, text, i) # {} THEN i
  ELSE firstMatch(regex, text, i + 1)

\* The match object for the longest string of the language found at offset index.
matchAt(index, here) ==
  [found |-> TRUE, index |-> index,
   str |-> CHOOSE w \in here : \A v \in here : Len(v) <= Len(w)]

\* What exec returns given the offset of the leftmost match (-1: none).
execResult(regex, text, index) ==
  IF index < 0 THEN [match |-> [found |-> FALSE], lastIndex |-> 0]
  ELSE withLastIndex(matchAt(index, MatchesAt(regex, text, index)))

\* regex.exec(text) with the g flag: the leftmost match at or after lastIndex
\* (here `from`), after which lastIndex is the match's end; on failure
\* lastIndex is reset to 0.
exec(regex, text, from) == execResult(regex, text, firstMatch(regex, text, from))

RECURSIVE findMatchesLoop(_, _, _, _)

\* Variant of findMatchesStep with `if` for `while`: one exec per call, so the
\* regex is left where its first match ended.
findMatchesStepOnce(text, pattern, matches, r) ==
  IF ~r.match.found THEN [matches |-> matches, lastIndex |-> r.lastIndex, threw |-> FALSE]
  ELSE IF pattern.validator # "" /\ Throws(pattern.validator, r.match.str)
       THEN [matches |-> matches, lastIndex |-> r.lastIndex, threw |-> TRUE]
  ELSE IF pattern.validator # "" /\ ~CallValidator(pattern.validator, r.match.str)
       THEN [matches |-> matches, lastIndex |-> r.lastIndex, threw |-> FALSE]
       ELSE [matches |-> Append(matches,
                                [type |-> pattern.type,
                                 original |-> r.match.str,
                                 start |-> r.match.index,
                                 end |-> r.match.index + Len(r.match.str),
                                 confidence |-> pattern.confidence,
                                 priority |-> pattern.priority]),
             lastIndex |-> r.lastIndex, threw |-> FALSE]

\* The body of the while loop of findMatches for one result of exec.  No
\* try/catch surrounds the validator's call: when it throws, findMatches
\* is left at once, with the regex where exec put it.
findMatchesStep(text, pattern, matches, r) ==
  IF ~r.match.found THEN [matches |-> matches, lastIndex |-> r.lastIndex, threw |-> FALSE]
  ELSE IF pattern.validator # "" /\ Throws(pattern.validator, r.match.str)
       THEN [matches |-> matches, lastIndex |-> r.lastIndex, threw |-> TRUE]
  ELSE IF pattern.validator # "" /\ ~CallValidator(pattern.validator, r.match.str)
       THEN findMatchesLoop(text, pattern, r.lastIndex, matches)
       ELSE findMatchesLoop(text, pattern, r.lastIndex,
              Append(matches,
                     [type |-> pattern.type,
                      original |-> r.match.str,
                      start |-> r.match.index,
                      end |-> r.match.index + Len(r.match.str),
                      confidence |-> pattern.confidence,
                      priority |-> pattern.priority]))

\* The while loop of findMatches, entered with the regex at lastIndex `from`.
findMatchesLoop(text, pattern, from, matches) ==
  findMatchesStep(text, pattern, matches, exec(pattern.regex, text, from))

\* pattern.regex is a RegExp object, which has exec and lastIndex.
IsRegExp(regex) == "words" \in DOMAIN regex

\* findMatches(text, pattern): the matches, the lastIndex the regex is left
\* with and whether an exception left the function.  pattern.regex.exec is
\* not a function when regex is no RegExp, and calling it throws a TypeError.
findMatches(text, pattern, from) ==
  IF ~IsRegExp(pattern.regex) THEN [matches |-> <<>>, lastIndex |-> from, threw |-> TRUE]
  ELSE findMatchesLoop(text, pattern, from, <<>>)

(***************************************************************************)
(* Conflict resolution: mergeOverlaps.                                     *)
(***************************************************************************)
\* The comparator of redactions.sort: a.start - b.start || b.priority - a.priority
compareRedactions(a, b) ==
  IF a.start - b.start # 0 THEN a.start - b.start ELSE b.priority - a.priority

\* Array.prototype.sort with that comparator; the sort is stable, so elements
\* that compare equal keep their order.
InsertAt(front, k, x) == SubSeq(front, 1, k) \o <<x>> \o SubSeq(front, k + 1, Len(front))

insertRedaction(front, x) ==
  InsertAt(front, Cardinality({i \in DOMAIN front : compareRedactions(front[i], x) <= 0}), x)

RECURSIVE sortRedactions(_)
sortRedactions(s) ==
  IF s = <<>> THEN <<>>
  ELSE insertRedaction(sortRedactions(SubSeq(s, 1, Len(s) - 1)), s[Len(s)])

\* Variant of mergeLoop with `<` for `<=`: touching spans are not merged.
RECURSIVE mergeLoopStrict(_, _, _, _)
mergeLoopStrict(redactions, i, current, merged) ==
  IF i > Len(redactions) THEN Append(merged, current)
  ELSE LET next == redactions[i]
       IN IF next.start < current.end
          THEN LET extended == [current EXCEPT !.end = Max(current.end, next.end)]
               IN mergeLoopStrict(redactions, i + 1,
                                  IF next.priority > current.priority
                                  THEN [extended EXCEPT !.type = next.type,
                                                        !.confidence = next.confidence]
                                  ELSE extended,
                                  merged)
          ELSE mergeLoopStrict(redactions, i + 1, next, Append(merged, current))

\* Variant of mergeLoop that keeps the first candidate's type and confidence.
RECURSIVE mergeLoopKeepFirst(_, _, _, _)
mergeLoopKeepFirst(redactions, i, current, merged) ==
  IF i > Len(redactions) THEN Append(merged, current)
  ELSE LET next == redactions[i]
       IN IF next.start <= current.end
          THEN mergeLoopKeepFirst(redactions, i + 1,
                                  [current EXCEPT !.end = Max(current.end, next.end)],
                                  merged)
          ELSE mergeLoopKeepFirst(redactions, i + 1, next, Append(merged, current))

\* Variant of mergeLoop that ends the span where the last candidate merged
\* ends, `current.end = next.end`.
RECURSIVE mergeLoopLastEnd(_, _, _, _)
mergeLoopLastEnd(redactions, i, current, merged) ==
  IF i > Len(redactions) THEN Append(merged, current)
  ELSE LET next == redactions[i]
       IN IF next.start <= current.end
          THEN LET extended == [current EXCEPT !.end = next.end]
               IN mergeLoopLastEnd(redactions, i + 1,
                                   IF next.priority > current.priority
                                   THEN [extended EXCEPT !.type = next.type,
                                                         !.confidence = next.confidence]
                                   ELSE extended,
                                   merged)
          ELSE mergeLoopLastEnd(redactions, i + 1, next, Append(merged, current))

\* The for loop of mergeOverlaps from index i (1-based here) on.
RECURSIVE mergeLoop(_, _, _, _)
mergeLoop(redactions, i, current, merged) ==
  IF i > Len(redactions) THEN Append(merged, current)
  ELSE LET next == redactions[i]
       IN IF next.start <= current.end
          THEN LET extended == [current EXCEPT !.end = Max(current.end, next.end)]
               IN mergeLoop(redactions, i + 1,
                            IF next.priority > current.priority
                            THEN [extended EXCEPT !.type = next.type,
                                                  !.confidence = next.confidence]
                            ELSE extended,
                            merged)
          ELSE mergeLoop(redactions, i + 1, next, Append(merged, current))

\* The sweep over the sorted candidates, starting with current = sorted[0].
sweep(sorted) == mergeLoop(sorted, 2, sorted[1], <<>>)

mergeOverlaps(redactions) ==
  IF Len(redactions) = 0 THEN <<>>
  ELSE sweep(sortRedactions(redactions))

(***************************************************************************)
(* Identifiers, rewrite and restore: redactText, restoreText.              *)
(***************************************************************************)
\* `[REDACTED:${id}]`
Placeholder(id) == <<"[","R","E","D","A","C","T","E","D",":">> \o id \o <<"]">>

\* text.slice(0, start) + replacement + text.slice(end) for one annotation
replaceSpan(text, redaction) ==
  slice(text, 0, redaction.start) \o Placeholder(redaction.id) \o sliceFrom(text, redaction.end)

\* The loop over the patterns in redactText: every pattern is scanned with
\* its own regex object, whose lastIndex is read and left in li.
\* regex.lastIndex, read and written; a value that is no RegExp has none.
lastIndexOf(li, regex) == IF IsRegExp(regex) THEN li[regex.id] ELSE 0
leftAt(li, regex, index) == IF IsRegExp(regex) THEN [li EXCEPT ![regex.id] = index] ELSE li

RECURSIVE scanPatterns(_, _, _, _, _)
\* allMatches = allMatches.concat(matches), and on to the next pattern.
\* An exception of findMatches leaves redactText too.
scanned(text, patterns, i, allMatches, li, found) ==
  IF found.threw
  THEN [allMatches |-> allMatches, lastIndex |-> leftAt(li, patterns[i].regex, found.lastIndex),
        threw |-> TRUE]
  ELSE scanPatterns(text, patterns, i + 1, allMatches \o found.matches,
                    leftAt(li, patterns[i].regex, found.lastIndex))

scanPatterns(text, patterns, i, allMatches, li) ==
  IF i > Len(patterns) THEN [allMatches |-> allMatches, lastIndex |-> li, threw |-> FALSE]
  ELSE scanned(text, patterns, i, allMatches, li,
               findMatches(text, patterns[i], lastIndexOf(li, patterns[i].regex)))

\* Variant of assignIds that numbers by the index in the list, `${type}#${index + 1}`.
RECURSIVE assignIdsByIndex(_, _, _, _)
assignIdsByIndex(mergedMatches, i, typeCounts, redactions) ==
  IF i > Len(mergedMatches) THEN [typeCounts |-> typeCounts, redactions |-> redactions]
  ELSE LET match == mergedMatches[i]
           count == Get(typeCounts, match.type, 0) + 1
       IN assignIdsByIndex(mergedMatches, i + 1, Put(typeCounts, match.type, count),
                           Append(redactions,
                                  [id |-> match.type \o <<"#">> \o numeral(i),
                                   type |-> match.type,
                                   original |-> match.original,
                                   start |-> match.start,
                                   end |-> match.end,
                                   confidence |-> match.confidence]))

\* mergedMatches.map(...): the per-type counters and the annotations with ids.
RECURSIVE assignIds(_, _, _, _)
assignIds(mergedMatches, i, typeCounts, redactions) ==
  IF i > Len(mergedMatches) THEN [typeCounts |-> typeCounts, redactions |-> redactions]
  ELSE LET match == mergedMatches[i]
           count == Get(typeCounts, match.type, 0) + 1
       IN assignIds(mergedMatches, i + 1, Put(typeCounts, match.type, count),
                    Append(redactions,
                           [id |-> match.type \o <<"#">> \o numeral(count),
                            type |-> match.type,
                            original |-> match.original,
                            start |-> match.start,
                            end |-> match.end,
                            confidence |-> match.confidence]))

\* Variant of rewrite that replaces front to back (annotations 1 to i in turn).
RECURSIVE rewriteAscending(_, _, _)
rewriteAscending(redactedText, redactions, i) ==
  IF i < 1 THEN redactedText
  ELSE replaceSpan(rewriteAscending(redactedText, redactions, i - 1), redactions[i])

\* The rewrite loop, from the last annotation (index i) down to the first.
RECURSIVE rewrite(_, _, _)
rewrite(redactedText, redactions, i) ==
  IF i < 1 THEN redactedText
  ELSE rewrite(replaceSpan(redactedText, redactions[i]), redactions, i - 1)

\* summary[type.toLowerCase()] = count over Object.entries(typeCounts)
RECURSIVE summarize(_, _, _)
summarize(typeCounts, i, summary) ==
  IF i > Len(typeCounts.keys) THEN summary
  ELSE LET type == typeCounts.keys[i]
       IN summarize(typeCounts, i + 1, Put(summary, toLowerCase(type), typeCounts.val[type]))

totalRedactions == <<"t","o","t","a","l","R","e","d","a","c","t","i","o","n","s">>

\* What redactText returns once the annotations have their ids; besides the
\* returned object (redactedText, redactions, summary) the record holds what
\* the call leaves behind or went through: the lastIndex of every regex, the
\* raw candidates and the number of patterns scanned.
redactResult(text, patterns, scan, ids) ==
  [redactedText |-> rewrite(text, ids.redactions, Len(ids.redactions)),
   redactions |-> ids.redactions,
   summary |-> Put(summarize(ids.typeCounts, 1, EmptyObject),
                   totalRedactions, Len(ids.redactions)),
   allMatches |-> scan.allMatches,
   scanned |-> Len(patterns),
   lastIndex |-> scan.lastIndex,
   threw |-> FALSE]

\* redactText from the merge on, given the outcome of the scan.
\* When the scan threw, the exception is what the caller gets: nothing is
\* returned, and the candidates found so far are lost with the call.
redactScanned(text, patterns, scan) ==
  IF scan.threw
  THEN [redactedText |-> <<>>, redactions |-> <<>>, summary |-> EmptyObject,
        allMatches |-> <<>>, scanned |-> 0, lastIndex |-> scan.lastIndex, threw |-> TRUE]
  ELSE redactResult(text, patterns, scan,
                    assignIds(mergeOverlaps(scan.allMatches), 1, EmptyObject, <<>>))

\* redactText from the scan on, given the pattern list.
redactWith(text, patterns, li) ==
  redactScanned(text, patterns, scanPatterns(text, patterns, 1, <<>>, li))

\* Variant of redactText whose early return reports a zero total.
redactTextZeroTotal(text, options, li) ==
  IF ~Truthy(text) \/ TypeOf(text) # "string"
  THEN [redactedText |-> <<>>, redactions |-> <<>>,
        summary |-> Put(EmptyObject, totalRedactions, 0),
        allMatches |-> <<>>, scanned |-> 0, lastIndex |-> li, threw |-> FALSE]
  ELSE redactWith(text.s, REDACTION_PATTERNS \o Default(options.customPatterns, <<>>), li)

\* redactText(text, options), run with the regex objects' lastIndex as li.
\* The options redactPII and redactPHI are read and not used.
redactText(text, options, li) ==
  IF ~Truthy(text) \/ TypeOf(text) # "string"
  THEN [redactedText |-> <<>>, redactions |-> <<>>, summary |-> EmptyObject,
        allMatches |-> <<>>, scanned |-> 0, lastIndex |-> li, threw |-> FALSE]
  ELSE LET redactPII == Default(options.redactPII, TRUE)
           redactPHI == Default(options.redactPHI, TRUE)
           customPatterns == Default(options.customPatterns, <<>>)
       IN redactWith(text.s, REDACTION_PATTERNS \o customPatterns, li)

\* The replacement text of String.prototype.replace for a string pattern:
\* $$ is "$", $& the matched text, $` what precedes it, $' what follows it.
RECURSIVE getSubstitution(_, _, _, _)
getSubstitution(replacement, matched, before, after) ==
  IF replacement = <<>> THEN <<>>
  ELSE IF /\ replacement[1] = "$"
          /\ Len(replacement) >= 2
          /\ replacement[2] \in {"$", "&", "`", "'"}
       THEN (CASE replacement[2] = "$" -> <<"$">>
               [] replacement[2] = "&" -> matched
               [] replacement[2] = "`" -> before
               [] replacement[2] = "'" -> after)
            \o getSubstitution(SubSeq(replacement, 3, Len(replacement)), matched, before, after)
       ELSE <<replacement[1]>> \o getSubstitution(Tail(replacement), matched, before, after)

\* s.replace(pattern, replacement) with a string pattern: the first occurrence only.
replaceAt(s, pattern, replacement, i) ==
  IF i < 0 THEN s
  ELSE slice(s, 0, i)
         \o getSubstitution(replacement, pattern, slice(s, 0, i), sliceFrom(s, i + Len(pattern)))
         \o sliceFrom(s, i + Len(pattern))

replace(s, pattern, replacement) == replaceAt(s, pattern, replacement, indexOf(s, pattern))

\* [...redactions].sort((a, b) => b.start - a.start), a stable sort.
insertByStartDescending(front, x) ==
  InsertAt(front, Cardinality({i \in DOMAIN front : x.start - front[i].start <= 0}), x)

RECURSIVE sortByStartDescending(_)
sortByStartDescending(s) ==
  IF s = <<>> THEN <<>>
  ELSE insertByStartDescending(sortByStartDescending(SubSeq(s, 1, Len(s) - 1)), s[Len(s)])

\* The for loop of restoreText over the sorted annotations.
RECURSIVE restoreLoop(_, _, _)
restoreLoop(restored, sorted, i) ==
  IF i > Len(sorted) THEN restored
  ELSE restoreLoop(replace(restored, Placeholder(sorted[i].id), sorted[i].original),
                   sorted, i + 1)

restoreText(redactedText, redactions) ==
  restoreLoop(redactedText, sortByStartDescending(redactions), 1)

(***************************************************************************)
(* The flagging pipeline (src/lib/flagging.js).  Its regular expressions   *)
(* are built from literals, so they are matched here as written rather     *)
(* than through a table of words, and they are created by each call: no    *)
(* lastIndex outlives flagSensitiveContent.                                *)
(***************************************************************************)
PRIVILEGE == <<"P","R","I","V","I","L","E","G","E">>
PHI == <<"P","H","I">>
CONFIDENTIALITY == <<"C","O","N","F","I","D","E","N","T","I","A","L","I","T","Y">>
FINANCIAL_SENSITIVE == <<"F","I","N","A","N","C","I","A","L","_","S","E","N","S","I","T","I","V","E">>
RISKY_CLAUSE == <<"R","I","S","K","Y","_","C","L","A","U","S","E">>
INDEMNIFICATION == <<"I","N","D","E","M","N","I","F","I","C","A","T","I","O","N">>

\* { words: [...], distance: n }
Proximity(words, distance) == [words |-> words, distance |-> distance]

FlagPattern(keywords, proximityPatterns, severity, excerptLength) ==
  [keywords |-> keywords, proximityPatterns |-> proximityPatterns,
   severity |-> severity, excerptLength |-> excerptLength]

\* FLAG_PATTERNS.PRIVILEGE
PrivilegePattern ==
  FlagPattern(
    << <<"a","t","t","o","r","n","e","y","-","c","l","i","e","n","t">>,
       <<"a","t","t","o","r","n","e","y"," ","c","l","i","e","n","t">>,
       <<"l","e","g","a","l"," ","a","d","v","i","c","e">>,
       <<"p","r","i","v","i","l","e","g","e","d">>,
       <<"w","o","r","k"," ","p","r","o","d","u","c","t">>,
       <<"o","p","i","n","i","o","n"," ","o","f"," ","c","o","u","n","s","e","l">>,
       <<"c","o","n","f","i","d","e","n","t","i","a","l"," ","l","e","g","a","l">>,
       <<"c","o","u","n","s","e","l"," ","a","d","v","i","s","e","d">>,
       <<"l","e","g","a","l"," ","c","o","u","n","s","e","l">> >>,
    << Proximity(<< <<"a","t","t","o","r","n","e","y">>, <<"a","d","v","i","c","e">> >>, 5),
       Proximity(<< <<"c","o","u","n","s","e","l">>, <<"o","p","i","n","i","o","n">> >>, 5),
       Proximity(<< <<"l","a","w","y","e","r">>, <<"p","r","i","v","i","l","e","g","e","d">> >>, 5),
       Proximity(<< <<"l","e","g","a","l">>, <<"p","r","i","v","i","l","e","g","e","d">> >>, 3) >>,
    "HIGH", 100)

\* FLAG_PATTERNS.PHI
PhiPattern ==
  FlagPattern(
    << <<"d","i","a","g","n","o","s","i","s">>,
       <<"t","r","e","a","t","m","e","n","t">>,
       <<"m","e","d","i","c","a","l"," ","h","i","s","t","o","r","y">>,
       <<"p","a","t","i","e","n","t">>,
       <<"H","I","V">>,
       <<"A","I","D","S">>,
       <<"p","s","y","c","h","i","a","t","r","i","c">>,
       <<"m","e","n","t","a","l"," ","h","e","a","l","t","h">>,
       <<"p","r","e","s","c","r","i","p","t","i","o","n">>,
       <<"m","e","d","i","c","a","t","i","o","n">>,
       <<"s","u","r","g","e","r","y">>,
       <<"h","o","s","p","i","t","a","l","i","z","a","t","i","o","n">>,
       <<"m","e","d","i","c","a","l"," ","c","o","n","d","i","t","i","o","n">>,
       <<"h","e","a","l","t","h"," ","i","n","f","o","r","m","a","t","i","o","n">>,
       <<"H","I","P","A","A">> >>,
    << Proximity(<< <<"p","a","t","i","e","n","t">>, <<"d","i","a","g","n","o","s","e","d">> >>, 5),
       Proximity(<< <<"m","e","d","i","c","a","l">>, <<"c","o","n","d","i","t","i","o","n">> >>, 3),
       Proximity(<< <<"h","e","a","l","t","h">>, <<"r","e","c","o","r","d","s">> >>, 3) >>,
    "HIGH", 100)

\* FLAG_PATTERNS.CONFIDENTIALITY
ConfidentialityPattern ==
  FlagPattern(
    << <<"c","o","n","f","i","d","e","n","t","i","a","l">>,
       <<"p","r","o","p","r","i","e","t","a","r","y">>,
       <<"t","r","a","d","e"," ","s","e","c","r","e","t">>,
       <<"n","o","n","-","d","i","s","c","l","o","s","u","r","e">>,
       <<"N","D","A">>,
       <<"c","o","n","f","i","d","e","n","t","i","a","l","i","t","y"," ","a","g","r","e","e","m","e","n","t">>,
       <<"s","e","c","r","e","t"," ","i","n","f","o","r","m","a","t","i","o","n">>,
       <<"p","r","o","p","r","i","e","t","a","r","y"," ","i","n","f","o","r","m","a","t","i","o","n">> >>,
    << Proximity(<< <<"c","o","n","f","i","d","e","n","t","i","a","l">>, <<"i","n","f","o","r","m","a","t","i","o","n">> >>, 3),
       Proximity(<< <<"t","r","a","d","e">>, <<"s","e","c","r","e","t">> >>, 2) >>,
    "MEDIUM", 80)

\* FLAG_PATTERNS.FINANCIAL_SENSITIVE
FinancialSensitivePattern ==
  FlagPattern(
    << <<"b","a","n","k"," ","a","c","c","o","u","n","t">>,
       <<"r","o","u","t","i","n","g"," ","n","u","m","b","e","r">>,
       <<"a","c","c","o","u","n","t"," ","n","u","m","b","e","r">>,
       <<"f","i","n","a","n","c","i","a","l"," ","r","e","c","o","r","d","s">>,
       <<"t","a","x"," ","r","e","t","u","r","n">>,
       <<"W","-","2">>,
       <<"1","0","9","9">>,
       <<"s","a","l","a","r","y">>,
       <<"c","o","m","p","e","n","s","a","t","i","o","n"," ","d","e","t","a","i","l","s">> >>,
    << Proximity(<< <<"b","a","n","k">>, <<"a","c","c","o","u","n","t">> >>, 2),
       Proximity(<< <<"f","i","n","a","n","c","i","a","l">>, <<"i","n","f","o","r","m","a","t","i","o","n">> >>, 3) >>,
    "HIGH", 80)

\* Object.entries(FLAG_PATTERNS): the [type, pattern] pairs in insertion order.
FLAG_PATTERNS ==
  << <<PRIVILEGE, PrivilegePattern>>,
     <<PHI, PhiPattern>>,
     <<CONFIDENTIALITY, ConfidentialityPattern>>,
     <<FINANCIAL_SENSITIVE, FinancialSensitivePattern>> >>

\* new RegExp(`\\b${word}\\b`, 'gi'), a fresh object (id 0) run over lowercased
\* text: ignoring case, it accepts there exactly the lowercased word.
WordRegex(word) == Regex(0, {toLowerCase(word)}, TRUE, TRUE)

\* while ((match = regex.exec(text)) !== null): the match objects in turn,
\* the regex starting at lastIndex `from`.
RECURSIVE execLoop(_, _, _, _)
execNext(regex, text, found, r) ==
  IF ~r.match.found THEN found
  ELSE execLoop(regex, text, r.lastIndex, Append(found, r.match))
execLoop(regex, text, from, found) == execNext(regex, text, found, exec(regex, text, from))

\* The approximate length of a word, in characters.
avgWordLength == 6

\* Variant of proximityLoop that reports the offset of the rule's first word,
\* `position: pos1`.
RECURSIVE proximityLoopFirstWord(_, _, _, _, _)
proximityLoopFirstWord(positions, distance, i, j, k) ==
  IF i > Len(positions) - 1 THEN [found |-> FALSE, position |-> -1]
  ELSE IF j > Len(positions[i]) THEN proximityLoopFirstWord(positions, distance, i + 1, 1, 1)
  ELSE IF k > Len(positions[i + 1]) THEN proximityLoopFirstWord(positions, distance, i, j + 1, 1)
  ELSE LET pos1 == positions[i][j]
           pos2 == positions[i + 1][k]
           wordDistance == Abs(pos2 - pos1)
       IN IF wordDistance <= distance * avgWordLength
          THEN [found |-> TRUE, position |-> pos1]
          ELSE proximityLoopFirstWord(positions, distance, i, j, k + 1)

\* The three nested loops of checkProximity, at words i and i + 1 and at the
\* j-th and k-th position of each (1-based).
RECURSIVE proximityLoop(_, _, _, _, _)
proximityLoop(positions, distance, i, j, k) ==
  IF i > Len(positions) - 1 THEN [found |-> FALSE, position |-> -1]
  ELSE IF j > Len(positions[i]) THEN proximityLoop(positions, distance, i + 1, 1, 1)
  ELSE IF k > Len(positions[i + 1]) THEN proximityLoop(positions, distance, i, j + 1, 1)
  ELSE LET pos1 == positions[i][j]
           pos2 == positions[i + 1][k]
           wordDistance == Abs(pos2 - pos1)
       IN IF wordDistance <= distance * avgWordLength
          THEN [found |-> TRUE, position |-> Min(pos1, pos2)]
          ELSE proximityLoop(positions, distance, i, j, k + 1)

\* match.index of every match
indices(found) == [m \in DOMAIN found |-> found[m].index]

\* words.map(word => ...): the offsets at which each word occurs in lowerText.
wordPositions(lowerText, words) ==
  [w \in DOMAIN words |-> indices(execLoop(WordRegex(words[w]), lowerText, 0, <<>>))]

checkProximity(text, words, distance) ==
  proximityLoop(wordPositions(toLowerCase(text), words), distance, 1, 1, 1)

\* String.prototype.trim
MaxOf(S) == CHOOSE x \in S : \A y \in S : y <= x
trimTo(s, kept) == IF kept = {} THEN <<>> ELSE SubSeq(s, MinOf(kept), MaxOf(kept))
trim(s) == trimTo(s, {i \in DOMAIN s : ~IsSpace(s[i])})

ellipsis == <<".", ".", ".">>

\* extractExcerpt(text, position, length)
extractExcerpt(text, position, length) ==
  LET halfLength == length \div 2
      start == Max(0, position - halfLength)
      end == Min(Len(text), position + halfLength)
  IN (IF start > 0 THEN ellipsis ELSE <<>>)
       \o trim(slice(text, start, end))
       \o (IF end < Len(text) THEN ellipsis ELSE <<>>)

\* `Contains keyword: "${keyword}"`
ContainsKeyword == <<"C","o","n","t","a","i","n","s"," ","k","e","y","w","o","r","d",":"," ","\"">>
keywordReason(keyword) == ContainsKeyword \o keyword \o <<"\"">>

\* The flags pushed for one keyword, given the matches of its regex.
keywordFlags(text, pattern, type, keyword, found) ==
  [m \in DOMAIN found |->
     [type |-> type,
      position |-> found[m].index,
      matchedText |-> keyword,
      reason |-> keywordReason(keyword),
      severity |-> pattern.severity,
      excerpt |-> extractExcerpt(text, found[m].index, pattern.excerptLength)]]

\* for (const keyword of pattern.keywords), from the k-th keyword on.
RECURSIVE keywordLoop(_, _, _, _, _)
keywordLoop(text, lowerText, pattern, type, k) ==
  IF k > Len(pattern.keywords) THEN <<>>
  ELSE keywordFlags(text, pattern, type, pattern.keywords[k],
                    execLoop(WordRegex(pattern.keywords[k]), lowerText, 0, <<>>))
         \o keywordLoop(text, lowerText, pattern, type, k + 1)

findKeywordMatches(text, pattern, type) ==
  keywordLoop(text, toLowerCase(text), pattern, type, 1)

\* Array.prototype.join
RECURSIVE join(_, _)
join(words, separator) ==
  IF words = <<>> THEN <<>>
  ELSE IF Len(words) = 1 THEN words[1]
  ELSE words[1] \o separator \o join(Tail(words), separator)

\* `Contains related terms: ${words.join(', ')} within ${distance} words`
ContainsRelatedTerms == <<"C","o","n","t","a","i","n","s"," ","r","e","l","a","t","e","d"," ","t","e","r","m","s",":"," ">>
Within == <<" ","w","i","t","h","i","n"," ">>
Words == <<" ","w","o","r","d","s">>
proximityReason(proximityPattern) ==
  ContainsRelatedTerms \o join(proximityPattern.words, <<",", " ">>)
    \o Within \o numeral(proximityPattern.distance) \o Words

\* The flag pushed for one proximity pattern, given the result of checkProximity.
proximityFlags(text, pattern, type, proximityPattern, result) ==
  IF result.found
  THEN << [type |-> type,
           position |-> result.position,
           matchedText |-> join(proximityPattern.words, <<" ", "+", " ">>),
           reason |-> proximityReason(proximityPattern),
           severity |-> pattern.severity,
           excerpt |-> extractExcerpt(text, result.position, pattern.excerptLength)] >>
  ELSE <<>>

\* for (const proximityPattern of pattern.proximityPatterns), from the k-th on.
RECURSIVE findProximityLoop(_, _, _, _)
findProximityLoop(text, pattern, type, k) ==
  IF k > Len(pattern.proximityPatterns) THEN <<>>
  ELSE proximityFlags(text, pattern, type, pattern.proximityPatterns[k],
                      checkProximity(text, pattern.proximityPatterns[k].words,
                                     pattern.proximityPatterns[k].distance))
         \o findProximityLoop(text, pattern, type, k + 1)

findProximityMatches(text, pattern, type) == findProximityLoop(text, pattern, type, 1)

\* A regex of detectRiskyClauses (flags gi): its alternatives in order, each a
\* sequence of literals separated by \s+.
RiskyPattern(regex, type, reason, severity) ==
  [regex |-> regex, type |-> type, reason |-> reason, severity |-> severity]

riskyPatterns ==
  << \* /unlimited\s+liability/gi
     RiskyPattern(<< << <<"u","n","l","i","m","i","t","e","d">>, <<"l","i","a","b","i","l","i","t","y">> >> >>,
                  RISKY_CLAUSE, <<"U","n","l","i","m","i","t","e","d"," ","l","i","a","b","i","l","i","t","y"," ","c","l","a","u","s","e"," ","d","e","t","e","c","t","e","d">>, "HIGH"),
     \* /waive\s+all\s+rights/gi
     RiskyPattern(<< << <<"w","a","i","v","e">>, <<"a","l","l">>, <<"r","i","g","h","t","s">> >> >>,
                  RISKY_CLAUSE, <<"R","i","g","h","t","s"," ","w","a","i","v","e","r"," ","c","l","a","u","s","e"," ","d","e","t","e","c","t","e","d">>, "HIGH"),
     \* /no\s+warranty/gi
     RiskyPattern(<< << <<"n","o">>, <<"w","a","r","r","a","n","t","y">> >> >>,
                  RISKY_CLAUSE, <<"N","o"," ","w","a","r","r","a","n","t","y"," ","c","l","a","u","s","e"," ","d","e","t","e","c","t","e","d">>, "MEDIUM"),
     \* /as\s+is\s+basis/gi
     RiskyPattern(<< << <<"a","s">>, <<"i","s">>, <<"b","a","s","i","s">> >> >>,
                  RISKY_CLAUSE, <<"\"","A","s"," ","i","s","\""," ","b","a","s","i","s"," ","c","l","a","u","s","e"," ","d","e","t","e","c","t","e","d">>, "MEDIUM"),
     \* /indemnif(y|ication)/gi
     RiskyPattern(<< << <<"i","n","d","e","m","n","i","f","y">> >>, << <<"i","n","d","e","m","n","i","f","i","c","a","t","i","o","n">> >> >>,
                  INDEMNIFICATION, <<"I","n","d","e","m","n","i","f","i","c","a","t","i","o","n"," ","c","l","a","u","s","e"," ","d","e","t","e","c","t","e","d">>, "MEDIUM") >>

\* \s+ from offset i, where text[i+1] is white space: the offset after the run.
RECURSIVE spacesEnd(_, _)
spacesEnd(text, i) ==
  IF i < Len(text) /\ IsSpace(text[i + 1]) THEN spacesEnd(text, i + 1) ELSE i

\* Where a match of parts[k], \s+, parts[k+1], ... that starts at offset i
\* ends, ignoring case; -1 if there is none.
RECURSIVE partsEnd(_, _, _, _)
partsEnd(text, i, parts, k) ==
  IF \/ i + Len(parts[k]) > Len(text)
     \/ LowerChar(text[i + 1]) # parts[k][1]
     \/ toLowerCase(SubSeq(text, i + 1, i + Len(parts[k]))) # parts[k]
  THEN -1
  ELSE IF k = Len(parts) THEN i + Len(parts[k])
  ELSE IF spacesEnd(text, i + Len(parts[k])) = i + Len(parts[k]) THEN -1
  ELSE partsEnd(text, spacesEnd(text, i + Len(parts[k])), parts, k + 1)

\* The same for the first alternative, from the a-th on, that matches at i.
RECURSIVE alternativesEnd(_, _, _, _)
alternativesEnd(text, i, regex, a) ==
  IF a > Len(regex) THEN -1
  ELSE IF partsEnd(text, i, regex[a], 1) >= 0 THEN partsEnd(text, i, regex[a], 1)
  ELSE alternativesEnd(text, i, regex, a + 1)

\* The offset of the leftmost match at or after offset i, -1 if there is none.
RECURSIVE riskyFirst(_, _, _)
riskyFirst(regex, text, i) ==
  IF i >= Len(text) THEN -1
  ELSE IF alternativesEnd(text, i, regex, 1) >= 0 THEN i
  ELSE riskyFirst(regex, text, i + 1)

\* pattern.regex.exec(text) given the offset of the leftmost match.
riskyExecResult(regex, text, index) ==
  IF index < 0 THEN [match |-> [found |-> FALSE], lastIndex |-> 0]
  ELSE withLastIndex([found |-> TRUE, index |-> index,
                      str |-> SubSeq(text, index + 1, alternativesEnd(text, index, regex, 1))])

riskyExec(regex, text, from) == riskyExecResult(regex, text, riskyFirst(regex, text, from))

\* while ((match = pattern.regex.exec(text)) !== null) matches.push(...)
RECURSIVE riskyLoop(_, _, _, _)
riskyNext(text, pattern, matches, r) ==
  IF ~r.match.found THEN matches
  ELSE riskyLoop(text, pattern, r.lastIndex,
         Append(matches,
                [type |-> pattern.type,
                 position |-> r.match.index,
                 matchedText |-> r.match.str,
                 reason |-> pattern.reason,
                 severity |-> pattern.severity,
                 excerpt |-> extractExcerpt(text, r.match.index, 80)]))
riskyLoop(text, pattern, from, matches) ==
  riskyNext(text, pattern, matches, riskyExec(pattern.regex, text, from))

\* for (const pattern of riskyPatterns), from the k-th on.
RECURSIVE detectRiskyLoop(_, _)
detectRiskyLoop(text, k) ==
  IF k > Len(riskyPatterns) THEN <<>>
  ELSE riskyLoop(text, riskyPatterns[k], 0, <<>>) \o detectRiskyLoop(text, k + 1)

detectRiskyClauses(text) == detectRiskyLoop(text, 1)

\* The merge window, in characters.
mergeDistance == 50

\* flags.sort((a, b) => a.position - b.position), a stable sort.
insertFlag(front, x) ==
  InsertAt(front, Cardinality({i \in DOMAIN front : front[i].position - x.position <= 0}), x)

\* Variant of sortFlags that leaves the candidates in the order found.
sortFlagsAsFound(s) == s

RECURSIVE sortFlags(_)
sortFlags(s) ==
  IF s = <<>> THEN <<>>
  ELSE insertFlag(sortFlags(SubSeq(s, 1, Len(s) - 1)), s[Len(s)])

\* current.reason after next is merged into current
mergedReason(current, next) ==
  IF ~includes(current.reason, next.reason)
  THEN current.reason \o <<";", " ">> \o next.reason
  ELSE current.reason

\* Variant of mergeFlagsLoop that merges on the distance alone, whatever the types.
RECURSIVE mergeFlagsLoopAnyType(_, _, _, _)
mergeFlagsLoopAnyType(flags, i, current, merged) ==
  IF i > Len(flags) THEN Append(merged, current)
  ELSE IF Abs(flags[i].position - current.position) <= mergeDistance
       THEN mergeFlagsLoopAnyType(flags, i + 1,
                                  [current EXCEPT !.reason = mergedReason(current, flags[i])],
                                  merged)
       ELSE mergeFlagsLoopAnyType(flags, i + 1, flags[i], Append(merged, current))

\* The for loop of mergeDuplicateFlags at index i (1-based) of the sorted flags.
RECURSIVE mergeFlagsLoop(_, _, _, _)
mergeFlagsLoop(flags, i, current, merged) ==
  IF i > Len(flags) THEN Append(merged, current)
  ELSE IF /\ flags[i].type = current.type
          /\ Abs(flags[i].position - current.position) <= mergeDistance
       THEN mergeFlagsLoop(flags, i + 1,
                           [current EXCEPT !.reason = mergedReason(current, flags[i])],
                           merged)
       ELSE mergeFlagsLoop(flags, i + 1, flags[i], Append(merged, current))

mergeSorted(sorted) == mergeFlagsLoop(sorted, 2, sorted[1], <<>>)

mergeDuplicateFlags(flags) ==
  IF Len(flags) = 0 THEN <<>> ELSE mergeSorted(sortFlags(flags))

\* The body of the loop over Object.entries(FLAG_PATTERNS), from the k-th
\* entry on: what it appends to allFlags.
RECURSIVE flagPatternsLoop(_, _, _)
flagPatternsLoop(text, skipped, k) ==
  IF k > Len(FLAG_PATTERNS) THEN <<>>
  ELSE (IF FLAG_PATTERNS[k][1] \in skipped THEN <<>>
        ELSE findKeywordMatches(text, FLAG_PATTERNS[k][2], FLAG_PATTERNS[k][1])
               \o findProximityMatches(text, FLAG_PATTERNS[k][2], FLAG_PATTERNS[k][1]))
         \o flagPatternsLoop(text, skipped, k + 1)

\* `F${index + 1}` and the fields of a final flag
formatFlags(mergedFlags) ==
  [index \in DOMAIN mergedFlags |->
     [id |-> <<"F">> \o numeral(index),
      type |-> mergedFlags[index].type,
      excerpt |-> mergedFlags[index].excerpt,
      start |-> mergedFlags[index].position,
      end |-> mergedFlags[index].position + Len(mergedFlags[index].matchedText),
      reason |-> mergedFlags[index].reason,
      severity |-> mergedFlags[index].severity]]

\* summary[flag.type] = (summary[flag.type] || 0) + 1, from the i-th flag on.
RECURSIVE countTypes(_, _, _)
countTypes(flags, i, summary) ==
  IF i > Len(flags) THEN summary
  ELSE countTypes(flags, i + 1,
                  Put(summary, flags[i].type, Get(summary, flags[i].type, 0) + 1))

total == <<"t","o","t","a","l">>
highSeverity == <<"h","i","g","h","S","e","v","e","r","i","t","y">>
riskLevel == <<"r","i","s","k","L","e","v","e","l">>

\* flags.filter(f => f.severity === 'HIGH').length
highSeverityCount(flags) == Cardinality({i \in DOMAIN flags : flags[i].severity = "HIGH"})

\* Variant of riskLevelOf with `>=` for `>` in the first test.
riskLevelOfAtLeast(count) ==
  IF count >= 3 THEN "HIGH" ELSE IF count > 0 THEN "MEDIUM" ELSE "LOW"

\* highSeverityCount > 3 ? 'HIGH' : highSeverityCount > 0 ? 'MEDIUM' : 'LOW'
riskLevelOf(count) ==
  IF count > 3 THEN "HIGH" ELSE IF count > 0 THEN "MEDIUM" ELSE "LOW"

flagSummary(flags) ==
  Put(Put(Put(countTypes(flags, 1, EmptyObject),
              total, Len(flags)),
          highSeverity, highSeverityCount(flags)),
      riskLevel, riskLevelOf(highSeverityCount(flags)))

\* What flagSensitiveContent returns given the merged flags; besides the
\* returned object (flags, summary) the record holds the raw candidates.
flagResult(allFlags, flags) ==
  [flags |-> flags, summary |-> flagSummary(flags), allFlags |-> allFlags]

flagMerged(allFlags) == flagResult(allFlags, formatFlags(mergeDuplicateFlags(allFlags)))

\* Variant of skippedTypes that does not read flagPHI.
skippedTypesButPHI(options) ==
  (IF ~Default(options.flagPrivilege, TRUE) THEN {PRIVILEGE} ELSE {})
    \cup (IF ~Default(options.flagConfidentiality, TRUE) THEN {CONFIDENTIALITY} ELSE {})

\* The flag types the options switch off.
skippedTypes(options) ==
  (IF ~Default(options.flagPrivilege, TRUE) THEN {PRIVILEGE} ELSE {})
    \cup (IF ~Default(options.flagPHI, TRUE) THEN {PHI} ELSE {})
    \cup (IF ~Default(options.flagConfidentiality, TRUE) THEN {CONFIDENTIALITY} ELSE {})

\* Variant of flagSensitiveContent without the early return's guard on
\* non-strings: the summary of no flags is computed for them.
flagSensitiveContentUnguarded(text, options) ==
  IF TypeOf(text) = "string" /\ Truthy(text)
  THEN flagMerged(flagPatternsLoop(text.s, skippedTypes(options), 1)
                    \o (IF Default(options.flagRiskyTerms, TRUE)
                        THEN detectRiskyClauses(text.s) ELSE <<>>))
  ELSE flagResult(<<>>, <<>>)

\* flagSensitiveContent(text, options)
flagSensitiveContent(text, options) ==
  IF ~Truthy(text) \/ TypeOf(text) # "string"
  THEN [flags |-> <<>>, summary |-> EmptyObject, allFlags |-> <<>>]
  ELSE flagMerged(flagPatternsLoop(text.s, skippedTypes(options), 1)
                    \o (IF Default(options.flagRiskyTerms, TRUE)
                        THEN detectRiskyClauses(text.s) ELSE <<>>))

(***************************************************************************)
(* The state machine of the redaction pipeline.                            *)
(*   doc        the document the caller is putting together (its phrases)  *)
(*   lastIndex  the scan position of every regex object that outlives a    *)
(*              call (the built-in patterns' and the caller's patterns')   *)
(*   call       the last call made on the document and what it returned;  *)
(*              repeat tells that another call on it came before           *)
(***************************************************************************)
RECURSIVE Concat(_)
Concat(phrases) == IF phrases = <<>> THEN <<>> ELSE Head(phrases) \o Concat(Tail(phrases))

Idle == [op |-> "none"]

\* Values of the text argument that are not strings.
NonStrings == <<JsNull, JsUndefined, JsNumber(0), JsNumber(42)>>

\* redactText(text), redactText(text, { customPatterns: [...] }),
\* redactText(text, { redactPII: false, redactPHI: false })
RedactOptions ==
  << [redactPII |-> <<>>, redactPHI |-> <<>>, customPatterns |-> <<>>],
     [redactPII |-> <<>>, redactPHI |-> <<>>, customPatterns |-> << <<NamePattern, TicketPattern>> >>],
     [redactPII |-> <<FALSE>>, redactPHI |-> <<FALSE>>, customPatterns |-> <<>>] >>

Init ==
  /\ doc = <<>>
  /\ lastIndex = [id \in RegexIds |-> 0]
  /\ call = Idle

\* The caller extends the document it is about to submit.
AppendPhrase(p) ==
  /\ Len(doc) < MaxPhrases
  /\ doc' = Append(doc, p)
  /\ call' = Idle
  /\ UNCHANGED lastIndex

\* The caller starts over with an empty document.
NewDocument ==
  /\ doc # <<>>
  /\ doc' = <<>>
  /\ call' = Idle
  /\ UNCHANGED lastIndex

\* One call of redactText.
DoRedact(text, o) ==
  \E r \in {redactText(text, RedactOptions[o], lastIndex)} :
     /\ call' = [op |-> "redactText", text |-> text, options |-> o,
                 redactedText |-> r.redactedText, redactions |-> r.redactions,
                 summary |-> r.summary, allMatches |-> r.allMatches,
                 scanned |-> r.scanned, threw |-> r.threw, restored |-> <<>>,
                 repeat |-> call.op # "none"]
     /\ lastIndex' = r.lastIndex
     /\ UNCHANGED doc

RedactDocument(o) == DoRedact(JsString(Concat(doc)), o)

\* redactText handed a value that is not a string where a document was due.
RedactNonString(v, o) ==
  /\ doc = <<>>
  /\ DoRedact(NonStrings[v], o)

\* restoreText on what the last redactText call returned.
RestoreText ==
  /\ call.op = "redactText"
  /\ call' = [call EXCEPT !.op = "restoreText",
                          !.restored = restoreText(call.redactedText, call.redactions)]
  /\ UNCHANGED <<doc, lastIndex>>

Next ==
  \/ \E p \in DOMAIN Phrases : AppendPhrase(Phrases[p])
  \/ NewDocument
  \/ \E o \in DOMAIN RedactOptions : RedactDocument(o)
  \/ \E v \in DOMAIN NonStrings, o \in DOMAIN RedactOptions : RedactNonString(v, o)
  \/ RestoreText

Spec == Init /\ [][Next]_vars

(***************************************************************************)
(* The redaction pipeline under callers' patterns of every kind: a type    *)
(* that differs from a built-in one by case, a validator that throws, a    *)
(* matcher that is no RegExp.  Same variables; call.threw tells that the   *)
(* call ended in an exception.                                             *)
(***************************************************************************)
\* The most phrases a document of this specification is made of.
MaxCustomPhrases == 2

CustomPhrases == <<TitledName, MailAndTicket, PlaceholderLiteral, SuiteCard>>

\* redactText(text), redactText(text, { customPatterns: [p] }) for each of
\* the three patterns
CustomOptions ==
  << [redactPII |-> <<>>, redactPHI |-> <<>>, customPatterns |-> <<>>],
     [redactPII |-> <<>>, redactPHI |-> <<>>, customPatterns |-> << <<MailboxPattern>> >>],
     [redactPII |-> <<>>, redactPHI |-> <<>>, customPatterns |-> << <<CheckedTicketPattern>> >>],
     [redactPII |-> <<>>, redactPHI |-> <<>>, customPatterns |-> << <<MalformedPattern>> >>] >>

AppendCustomPhrase(p) ==
  /\ Len(doc) < MaxCustomPhrases
  /\ doc' = Append(doc, p)
  /\ call' = Idle
  /\ UNCHANGED lastIndex

\* One call of redactText on the document.
RedactCustom(o) ==
  \E r \in {redactText(JsString(Concat(doc)), CustomOptions[o], lastIndex)} :
     /\ call' = [op |-> "redactText", text |-> JsString(Concat(doc)), options |-> o,
                 redactedText |-> r.redactedText, redactions |-> r.redactions,
                 summary |-> r.summary, allMatches |-> r.allMatches,
                 scanned |-> r.scanned, threw |-> r.threw, restored |-> <<>>,
                 repeat |-> call.op # "none"]
     /\ lastIndex' = r.lastIndex
     /\ UNCHANGED doc

CustomNext ==
  \/ \E p \in DOMAIN CustomPhrases : AppendCustomPhrase(CustomPhrases[p])
  \/ NewDocument
  \/ \E o \in DOMAIN CustomOptions : RedactCustom(o)

CustomSpec == Init /\ [][CustomNext]_vars

(***************************************************************************)
(* The scan loop of findMatches, one iteration at a time, for patterns     *)
(* whose regex a caller wrote without the g flag or so that it matches the *)
(* empty string.  Here call holds the pattern being scanned, the matches   *)
(* pushed so far and whether the loop was left; redactText is synchronous, *)
(* so nothing else happens while a scan is on.                             *)
(***************************************************************************)
\* A regex literal with its g flag given: /Cd/ has none.
RegexWithFlags(id, words, bStart, bEnd, global) ==
  [id |-> id, words |-> words, bStart |-> bStart, bEnd |-> bEnd, global |-> global]

\* regex.global
IsGlobal(regex) == "global" \notin DOMAIN regex \/ regex.global

\* regex.exec(text) whatever the flags: without g (and y) the search starts
\* at offset 0 and lastIndex is neither read nor written.
execOf(regex, text, from) ==
  IF IsGlobal(regex) THEN exec(regex, text, from)
  ELSE [match |-> exec(regex, text, 0).match, lastIndex |-> from]

\* Two more patterns callers supplied:
\*   addCustomPattern('NAME', /Cd/), the g flag forgotten
\*   addCustomPattern('TICKET', /\d*/g), which matches the empty string
SloppyPattern ==
  addCustomPattern(NAME, RegexWithFlags(20, {<<"C","d">>}, FALSE, FALSE, FALSE),
                   [priority |-> <<>>, confidence |-> <<>>, validator |-> <<>>])
EmptyPattern ==
  addCustomPattern(TICKET,
                   Regex(21, {<<>>, <<"1">>, <<"7">>,
                              <<"4","1","1","1","1","1","1","1","1","1","1","1","1","1","1","1">>},
                         FALSE, FALSE),
                   [priority |-> <<>>, confidence |-> <<>>, validator |-> <<>>])

\* The patterns scanned: EMAIL and PHONE of the catalog and the callers'.
ScannedPatterns ==
  <<REDACTION_PATTERNS[10], REDACTION_PATTERNS[11], CheckedTicketPattern,
    SloppyPattern, EmptyPattern>>

\* One evaluation of the while condition of findMatches and, when exec
\* returned a match, one run of the body: the matches, the regex's lastIndex,
\* whether the loop was left and whether by an exception.
findMatchesIteration(pattern, matches, r) ==
  IF ~r.match.found
  THEN [matches |-> matches, lastIndex |-> r.lastIndex, left |-> TRUE, threw |-> FALSE]
  ELSE IF pattern.validator # "" /\ Throws(pattern.validator, r.match.str)
       THEN [matches |-> matches, lastIndex |-> r.lastIndex, left |-> TRUE, threw |-> TRUE]
  ELSE IF pattern.validator # "" /\ ~CallValidator(pattern.validator, r.match.str)
       THEN [matches |-> matches, lastIndex |-> r.lastIndex, left |-> FALSE, threw |-> FALSE]
       ELSE [matches |-> Append(matches,
                                [type |-> pattern.type,
                                 original |-> r.match.str,
                                 start |-> r.match.index,
                                 end |-> r.match.index + Len(r.match.str),
                                 confidence |-> pattern.confidence,
                                 priority |-> pattern.priority]),
             lastIndex |-> r.lastIndex, left |-> FALSE, threw |-> FALSE]

\* The caller extends the document between two scans, or starts over when
\* it is full.
AppendScanPhrase(p) ==
  /\ IF call.op = "none" THEN TRUE ELSE call.left
  /\ doc' = IF Len(doc) < MaxCustomPhrases THEN Append(doc, p) ELSE <<p>>
  /\ call' = Idle
  /\ UNCHANGED lastIndex

\* findMatches(text, pattern) is entered; redactText calls it for texts that
\* are not empty.
StartScan(k) ==
  /\ call.op = "none"
  /\ doc # <<>>
  /\ call' = [op |-> "findMatches", pattern |-> k, matches |-> <<>>,
              iterations |-> 0, left |-> FALSE, threw |-> FALSE]
  /\ UNCHANGED <<doc, lastIndex>>

\* One iteration of its loop.  The run is followed for two iterations more
\* than the text has characters.
ScanStep ==
  /\ call.op = "findMatches"
  /\ ~call.left
  /\ call.iterations < Len(Concat(doc)) + 2
  /\ \E pattern \in {ScannedPatterns[call.pattern]} :
       \E s \in {findMatchesIteration(pattern, call.matches,
                                      execOf(pattern.regex, Concat(doc),
                                             lastIndexOf(lastIndex, pattern.regex)))} :
          /\ call' = [call EXCEPT !.matches = s.matches, !.left = s.left,
                                  !.threw = s.threw, !.iterations = @ + 1]
          /\ lastIndex' = leftAt(lastIndex, pattern.regex, s.lastIndex)
  /\ UNCHANGED doc

ScanNext ==
  \/ \E p \in DOMAIN CustomPhrases : AppendScanPhrase(CustomPhrases[p])
  \/ \E k \in DOMAIN ScannedPatterns : StartScan(k)
  \/ ScanStep

ScanSpec == Init /\ [][ScanNext]_vars

(***************************************************************************)
(* The routing-number validator on its own: a candidate text is put        *)
(* together, a context or none and then digits, and handed to the          *)
(* validator as findMatches hands it a match.                              *)
(***************************************************************************)
\* The most digits a candidate text is given.
MaxDigits == 10

\* What precedes the digits: nothing, "Routing #", "ABA ".
RoutingContexts ==
  {<<>>, <<"R","o","u","t","i","n","g"," ","#">>, <<"A","B","A"," ">>}

\* The digits the candidate texts are written with.
RoutingDigits == {"0", "1", "2"}

RoutingInit ==
  /\ doc \in RoutingContexts
  /\ lastIndex = [id \in RegexIds |-> 0]
  /\ call = Idle

AppendDigit(d) ==
  /\ Len(stripNonDigits(doc)) < MaxDigits
  /\ doc' = Append(doc, d)
  /\ call' = Idle
  /\ UNCHANGED lastIndex

\* pattern.validator(original) for the ROUTING_NUMBER pattern.
ValidateRouting ==
  /\ call.op = "none"
  /\ call' = [op |-> "validateRoutingNumber",
              accepted |-> CallValidator(REDACTION_PATTERNS[4].validator, doc)]
  /\ UNCHANGED <<doc, lastIndex>>

RoutingNext ==
  \/ \E d \in RoutingDigits : AppendDigit(d)
  \/ ValidateRouting

RoutingSpec == RoutingInit /\ [][RoutingNext]_vars

(***************************************************************************)
(* The built-in catalog as state.  REDACTION_PATTERNS is an array of the   *)
(* module, alive as long as the process, and redactText reads it at every  *)
(* call; here call.catalog is that array as the last call (or the start)   *)
(* left it, and each call reads it from there.                             *)
(***************************************************************************)
\* Variant of allPatterns that appends to the array of the module,
\* REDACTION_PATTERNS.push(...customPatterns), and scans that array.
allPatternsPushed(catalog, customPatterns) ==
  [patterns |-> catalog \o customPatterns, catalog |-> catalog \o customPatterns]

\* const patterns = [...REDACTION_PATTERNS, ...customPatterns]: a new array,
\* and the array of the module as the statement leaves it.
allPatterns(catalog, customPatterns) ==
  [patterns |-> catalog \o customPatterns, catalog |-> catalog]

\* redactText from the pattern list on, with the catalog it leaves.
redactOver(text, all, li) ==
  [result |-> redactWith(text, all.patterns, li), catalog |-> all.catalog]

\* redactText(text, options) in a process whose catalog array is catalog.
redactTextWith(catalog, text, options, li) ==
  IF ~Truthy(text) \/ TypeOf(text) # "string"
  THEN [result |-> redactText(text, options, li), catalog |-> catalog]
  ELSE redactOver(text.s, allPatterns(catalog, Default(options.customPatterns, <<>>)), li)

\* The phrases of the documents of this specification.
CatalogPhrases == <<TitledName, MailAndTicket>>

CatalogInit ==
  /\ doc = <<>>
  /\ lastIndex = [id \in RegexIds |-> 0]
  /\ call = [op |-> "none", catalog |-> REDACTION_PATTERNS]

\* The caller extends the document, or starts over when it is full.
AppendCatalogPhrase(p) ==
  /\ doc' = IF Len(doc) < MaxCustomPhrases THEN Append(doc, p) ELSE <<p>>
  /\ call' = [op |-> "none", catalog |-> call.catalog]
  /\ UNCHANGED lastIndex

\* One call of redactText on the document (or on "" before it has a phrase).
RedactCatalog(o) ==
  \E r \in {redactTextWith(call.catalog, JsString(Concat(doc)), CustomOptions[o], lastIndex)} :
     /\ call' = [op |-> "redactText", text |-> JsString(Concat(doc)), options |-> o,
                 redactedText |-> r.result.redactedText, redactions |-> r.result.redactions,
                 summary |-> r.result.summary, allMatches |-> r.result.allMatches,
                 scanned |-> r.result.scanned, threw |-> r.result.threw,
                 previous |-> IF call.op = "none" THEN 0 ELSE call.options,
                 catalog |-> r.catalog]
     /\ lastIndex' = r.result.lastIndex
     /\ UNCHANGED doc

CatalogNext ==
  \/ \E p \in DOMAIN CatalogPhrases : AppendCatalogPhrase(CatalogPhrases[p])
  \/ \E o \in DOMAIN CustomOptions : RedactCatalog(o)

CatalogSpec == CatalogInit /\ [][CatalogNext]_vars

(***************************************************************************)
(* The state machine of the flagging pipeline: the caller puts a document  *)
(* together as before and hands it, or a value that is not a string, to    *)
(* flagSensitiveContent.  Flagging keeps no state between calls, so        *)
(* lastIndex is left alone.                                                *)
(***************************************************************************)
\* The phrases a document handed to the flagging pipeline is made of.
PrivilegedPatient == <<"p","r","i","v","i","l","e","g","e","d"," ","p","a","t","i","e","n","t"," ">>
LegalAdvice == <<"L","e","g","a","l"," ","A","d","v","i","c","e"," ">>
NoWarranty == <<"n","o"," "," ","w","a","r","r","a","n","t","y",";"," ">>
BankAccount == <<"b","a","n","k"," ","a","c","c","o","u","n","t"," ">>
Nda == <<"N","D","A"," ">>
Boilerplate == <<"t","h","e"," ","p","a","r","t","i","e","s"," ","a","g","r","e","e"," ","t","o"," ","t","h","e"," ","t","e","r","m","s"," ","h","e","r","e","."," ">>
FlagPhrases == <<PrivilegedPatient, LegalAdvice, NoWarranty, BankAccount, Nda, Boilerplate>>

\* flagSensitiveContent(text),
\* flagSensitiveContent(text, { flagPrivilege: false, flagRiskyTerms: false }),
\* flagSensitiveContent(text, { flagPHI: false, flagConfidentiality: false })
FlagOptions ==
  << [flagPrivilege |-> <<>>, flagPHI |-> <<>>,
      flagConfidentiality |-> <<>>, flagRiskyTerms |-> <<>>],
     [flagPrivilege |-> <<FALSE>>, flagPHI |-> <<>>,
      flagConfidentiality |-> <<>>, flagRiskyTerms |-> <<FALSE>>],
     [flagPrivilege |-> <<>>, flagPHI |-> <<FALSE>>,
      flagConfidentiality |-> <<FALSE>>, flagRiskyTerms |-> <<>>] >>

FlagInit ==
  /\ doc = <<>>
  /\ lastIndex = [id \in RegexIds |-> 0]
  /\ call = Idle

\* The caller extends the document it is about to submit.
AppendFlagPhrase(p) ==
  /\ Len(doc) < MaxFlagPhrases
  /\ doc' = Append(doc, p)
  /\ call' = Idle
  /\ UNCHANGED lastIndex

\* The caller starts over with an empty document.
NewFlagDocument ==
  /\ doc # <<>>
  /\ doc' = <<>>
  /\ call' = Idle
  /\ UNCHANGED lastIndex

\* One call of flagSensitiveContent, made on the document as submitted: a
\* call reads nothing that an earlier call wrote.
DoFlag(text, o) ==
  /\ call.op = "none"
  /\ \E r \in {flagSensitiveContent(text, FlagOptions[o])} :
        /\ call' = [op |-> "flagSensitiveContent", text |-> text, options |-> o,
                    flags |-> r.flags, summary |-> r.summary, allFlags |-> r.allFlags]
        /\ UNCHANGED <<doc, lastIndex>>

FlagDocument(o) == DoFlag(JsString(Concat(doc)), o)

\* flagSensitiveContent handed a value that is not a string where a document
\* was due.
FlagNonString(v, o) ==
  /\ doc = <<>>
  /\ DoFlag(NonStrings[v], o)

FlagNext ==
  \/ \E p \in DOMAIN FlagPhrases : AppendFlagPhrase(FlagPhrases[p])
  \/ NewFlagDocument
  \/ \E o \in DOMAIN FlagOptions : FlagDocument(o)
  \/ \E v \in DOMAIN NonStrings, o \in DOMAIN FlagOptions : FlagNonString(v, o)

FlagSpec == FlagInit /\ [][FlagNext]_vars

(***************************************************************************)
(* The flagging pipeline on contract clauses: documents in which hits of   *)
(* one category differ in severity, hits of two categories start at the    *)
(* same offset, and the words of a proximity rule stand in either order,   *)
(* near each other or apart.  Same variables and calls as above.           *)
(***************************************************************************)
\* The most phrases a document of this specification is made of.
MaxClausePhrases == 3

NoWarrantyClause == <<"n","o"," ","w","a","r","r","a","n","t","y"," ">>
UnlimitedLiability == <<"U","n","l","i","m","i","t","e","d"," ","l","i","a","b","i","l","i","t","y"," ">>
ConfidentialLegal == <<"c","o","n","f","i","d","e","n","t","i","a","l"," ","l","e","g","a","l"," ">>
Trade == <<"t","r","a","d","e"," ">>
Secret == <<"S","e","c","r","e","t"," ">>
ClausePhrases == <<NoWarrantyClause, UnlimitedLiability, ConfidentialLegal, Trade, Secret>>

AppendClausePhrase(p) ==
  /\ Len(doc) < MaxClausePhrases
  /\ doc' = Append(doc, p)
  /\ call' = Idle
  /\ UNCHANGED lastIndex

ClauseNext ==
  \/ \E p \in DOMAIN ClausePhrases : AppendClausePhrase(ClausePhrases[p])
  \/ NewFlagDocument
  \/ \E o \in DOMAIN FlagOptions : FlagDocument(o)

ClauseSpec == FlagInit /\ [][ClauseNext]_vars

(***************************************************************************)
(* The HIPAA report: generateHIPAAReport and quickHIPAACheck, which read   *)
(* a list of annotations and a list of flags.                              *)
(***************************************************************************)
HEALTH_INSURANCE_ID == <<"H","E","A","L","T","H","_","I","N","S","U","R","A","N","C","E","_","I","D">>
MEDICARE_ID == <<"M","E","D","I","C","A","R","E","_","I","D">>
DEA_NUMBER == <<"D","E","A","_","N","U","M","B","E","R">>
NPI == <<"N","P","I">>

\* An entry of HIPAA_PHI_CATEGORIES: its key, redactionTypes and severity
\* (label, description and regulation are texts nothing reads).
Category(category, redactionTypes, severity) ==
  [category |-> category, redactionTypes |-> redactionTypes, severity |-> severity]

HIPAA_PHI_CATEGORIES ==
  << Category("NAMES", <<TITLE_NAME>>, "HIGH"),
     Category("GEOGRAPHIC", <<ADDRESS>>, "HIGH"),
     Category("DATES", <<DATE>>, "HIGH"),
     Category("PHONE", <<PHONE>>, "HIGH"),
     Category("FAX", <<PHONE>>, "HIGH"),
     Category("EMAIL", <<EMAIL>>, "HIGH"),
     Category("SSN", <<SSN>>, "CRITICAL"),
     Category("MRN", <<MRN>>, "CRITICAL"),
     Category("HEALTH_PLAN", <<HEALTH_INSURANCE_ID, MEDICARE_ID>>, "CRITICAL"),
     Category("ACCOUNT", <<BANK_ACCOUNT>>, "HIGH"),
     Category("LICENSE", <<DEA_NUMBER, NPI>>, "HIGH"),
     Category("DEVICE", <<>>, "MEDIUM"),
     Category("URL", <<>>, "MEDIUM"),
     Category("IP", <<IP_ADDRESS>>, "HIGH"),
     Category("BIOMETRIC", <<>>, "CRITICAL"),
     Category("PHOTO", <<>>, "HIGH"),
     Category("OTHER", <<CREDIT_CARD, IBAN, ROUTING_NUMBER>>, "HIGH") >>

\* redactions.filter(r => config.redactionTypes.includes(r.type))
matchingRedactions(redactions, config) ==
  SelectSeq(redactions, LAMBDA r : r.type \in Range(config.redactionTypes))

\* hipaaFindings[category] = { ...config, count, instances }
finding(config, matching) ==
  [category |-> config.category, redactionTypes |-> config.redactionTypes,
   severity |-> config.severity, count |-> Len(matching),
   instances |-> [i \in DOMAIN matching |->
                    [id |-> matching[i].id, type |-> matching[i].type,
                     confidence |-> matching[i].confidence]]]

\* The loop of mapRedactionsToHIPAA from the k-th category on: the entries
\* of hipaaFindings in insertion order.
RECURSIVE mapRedactionsLoop(_, _)
mapRedactionsLoop(redactions, k) ==
  IF k > Len(HIPAA_PHI_CATEGORIES) THEN <<>>
  ELSE (IF Len(matchingRedactions(redactions, HIPAA_PHI_CATEGORIES[k])) > 0
        THEN <<finding(HIPAA_PHI_CATEGORIES[k],
                       matchingRedactions(redactions, HIPAA_PHI_CATEGORIES[k]))>>
        ELSE <<>>)
         \o mapRedactionsLoop(redactions, k + 1)

mapRedactionsToHIPAA(redactions) == mapRedactionsLoop(redactions, 1)

\* Object.values(hipaaFindings).filter(f => f.severity === severity).length
findingsOfSeverity(hipaaFindings, severity) ==
  Cardinality({k \in DOMAIN hipaaFindings : hipaaFindings[k].severity = severity})

\* flags.filter(f => f.type === 'PHI').length
phiFlagsCount(flags) == Cardinality({i \in DOMAIN flags : flags[i].type = PHI})

\* score >= 90 ? 'A' : score >= 80 ? 'B' : score >= 70 ? 'C' : score >= 60 ? 'D' : 'F'
gradeOf(score) ==
  IF score >= 90 THEN "A" ELSE IF score >= 80 THEN "B"
  ELSE IF score >= 70 THEN "C" ELSE IF score >= 60 THEN "D" ELSE "F"

\* The score after the three adjustments, before it is clamped.
adjustedScore(critical, phi, redacted) ==
  100 - (IF critical > 0 THEN critical * 5 ELSE 0)
      - (IF phi > 0 THEN Min(phi * 3, 15) ELSE 0)
      + (IF redacted > 0 THEN 5 ELSE 0)

\* The points of the deductions pushed, in order.
deductionPoints(critical, phi, redacted) ==
  (IF critical > 0 THEN <<critical * 5>> ELSE <<>>)
    \o (IF phi > 0 THEN <<Min(phi * 3, 15)>> ELSE <<>>)
    \o (IF redacted > 0 THEN <<-5>> ELSE <<>>)

\* Variant of scoreResult that returns the score as it stands, not clamped.
scoreResultUnclamped(score, deductions) ==
  [score |-> score, grade |-> gradeOf(score), deductions |-> deductions]

\* What calculateComplianceScore returns for the score it arrived at: the
\* score is clamped, the grade is taken from the score as it stands.
scoreResult(score, deductions) ==
  [score |-> Max(0, Min(100, score)), grade |-> gradeOf(score), deductions |-> deductions]

calculateComplianceScore(hipaaFindings, flags, redactions) ==
  scoreResult(adjustedScore(findingsOfSeverity(hipaaFindings, "CRITICAL"),
                            phiFlagsCount(flags), Len(redactions)),
              deductionPoints(findingsOfSeverity(hipaaFindings, "CRITICAL"),
                              phiFlagsCount(flags), Len(redactions)))

\* complianceScore.score >= 90 ? ... : complianceScore.score >= 70 ? ... : ...
interpretation(score) ==
  IF score >= 90 THEN "Document meets HIPAA compliance standards with proper redaction"
  ELSE IF score >= 70 THEN "Document requires attention to some HIPAA compliance areas"
  ELSE "Document has significant HIPAA compliance concerns"

\* The report given the findings and the score.  reportId and the timestamps
\* (clock, random number) and the texts built from the findings
\* (recommendations, concerns, detailedFindings) are left out.
report(text, redactions, flags, hipaaFindings, complianceScore) ==
  [documentInfo |-> [characterCount |-> Len(text)],
   summary |-> [totalPHIIdentifiersFound |-> Len(redactions),
                categoriesAffected |-> Len(hipaaFindings),
                criticalFindings |-> findingsOfSeverity(hipaaFindings, "CRITICAL"),
                highFindings |-> findingsOfSeverity(hipaaFindings, "HIGH"),
                mediumFindings |-> findingsOfSeverity(hipaaFindings, "MEDIUM"),
                flaggedSections |-> Len(flags),
                complianceScore |-> complianceScore.score,
                complianceGrade |-> complianceScore.grade],
   complianceScore |-> [score |-> complianceScore.score,
                        grade |-> complianceScore.grade,
                        deductions |-> complianceScore.deductions,
                        interpretation |-> interpretation(complianceScore.score)],
   phiFindings |-> hipaaFindings]

scoredReport(text, redactions, flags, hipaaFindings) ==
  report(text, redactions, flags, hipaaFindings,
         calculateComplianceScore(hipaaFindings, flags, redactions))

generateHIPAAReport(text, redactions, flags) ==
  scoredReport(text, redactions, flags, mapRedactionsToHIPAA(redactions))

\* Variant of quickResult with `>=` for `>` in the tests of the PHI flag count.
quickResultAtLeast(criticalCount, phiCount) ==
  [isCompliant |-> criticalCount = 0 /\ phiCount < 2,
   riskLevel |-> IF criticalCount > 0 THEN "HIGH" ELSE IF phiCount >= 2 THEN "MEDIUM" ELSE "LOW",
   criticalPHICount |-> criticalCount,
   phiFlagsCount |-> phiCount,
   requiresReview |-> criticalCount > 0 \/ phiCount > 0,
   message |-> IF criticalCount > 0
               THEN "Critical PHI detected - document requires immediate review"
               ELSE IF phiCount >= 2
               THEN "Multiple PHI references detected - review recommended"
               ELSE "Document passes basic HIPAA compliance check"]

\* The object quickHIPAACheck returns for the two counts.
quickResult(criticalCount, phiCount) ==
  [isCompliant |-> criticalCount = 0 /\ phiCount <= 2,
   riskLevel |-> IF criticalCount > 0 THEN "HIGH" ELSE IF phiCount > 2 THEN "MEDIUM" ELSE "LOW",
   criticalPHICount |-> criticalCount,
   phiFlagsCount |-> phiCount,
   requiresReview |-> criticalCount > 0 \/ phiCount > 0,
   message |-> IF criticalCount > 0
               THEN "Critical PHI detected - document requires immediate review"
               ELSE IF phiCount > 2
               THEN "Multiple PHI references detected - review recommended"
               ELSE "Document passes basic HIPAA compliance check"]

quickHIPAACheck(redactions, flags) ==
  quickResult(findingsOfSeverity(mapRedactionsToHIPAA(redactions), "CRITICAL"),
              phiFlagsCount(flags))

(***************************************************************************)
(* The state machine of the HIPAA report: a caller gathers annotations     *)
(* and flags and asks for the report or the quick check.  Here doc holds   *)
(* the two lists gathered and call the last answer; lastIndex is left      *)
(* alone.                                                                  *)
(***************************************************************************)
\* The most annotations and the most flags gathered.
MaxRedactions == 3
MaxFlags == 6

\* The types of the annotations and of the flags handed in.
ReportedTypes == <<SSN, MRN, HEALTH_INSURANCE_ID, EMAIL>>
ReportedFlagTypes == <<PHI, PRIVILEGE>>

\* { id: 'SSN#1', type: 'SSN', confidence: 'high' } and { type: 'PHI', severity: 'HIGH' }
SampleRedaction(type) == [id |-> type \o <<"#","1">>, type |-> type, confidence |-> "high"]
SampleFlag(type) == [type |-> type, severity |-> "HIGH"]
SampleText == <<"S","a","m","p","l","e"," ","t","e","x","t">>

HipaaInit ==
  /\ doc = [redactions |-> <<>>, flags |-> <<>>]
  /\ lastIndex = [id \in RegexIds |-> 0]
  /\ call = Idle

AddRedaction(type) ==
  /\ Len(doc.redactions) < MaxRedactions
  /\ doc' = [doc EXCEPT !.redactions = Append(@, SampleRedaction(type))]
  /\ call' = Idle
  /\ UNCHANGED lastIndex

AddFlag(type) ==
  /\ Len(doc.flags) < MaxFlags
  /\ doc' = [doc EXCEPT !.flags = Append(@, SampleFlag(type))]
  /\ call' = Idle
  /\ UNCHANGED lastIndex

\* generateHIPAAReport(text, redactions, flags)
GenerateReport ==
  /\ call.op = "none"
  /\ call' = [op |-> "generateHIPAAReport",
              report |-> generateHIPAAReport(SampleText, doc.redactions, doc.flags)]
  /\ UNCHANGED <<doc, lastIndex>>

\* quickHIPAACheck(redactions, flags)
QuickCheck ==
  /\ call.op = "none"
  /\ call' = [op |-> "quickHIPAACheck", check |-> quickHIPAACheck(doc.redactions, doc.flags)]
  /\ UNCHANGED <<doc, lastIndex>>

HipaaNext ==
  \/ \E t \in DOMAIN ReportedTypes : AddRedaction(ReportedTypes[t])
  \/ \E t \in DOMAIN ReportedFlagTypes : AddFlag(ReportedFlagTypes[t])
  \/ GenerateReport
  \/ QuickCheck

HipaaSpec == HipaaInit /\ [][HipaaNext]_vars

(***************************************************************************)
(* The batch endpoint (src/pages/api/batch.js): a client puts a multipart  *)
(* request together and posts it; the handler parses the form, starts      *)
(* processDocument on every uploaded file and awaits them all.  Each       *)
(* processDocument runs up to its await of extractText when it is started  *)
(* and from there to its end when the extraction settles, in whatever      *)
(* order the extractions settle; nothing else of it can interleave.  Here  *)
(* doc is the request (the uploads under the form fields files and file)   *)
(* and call the handler's progress: its phase, the files it took, every    *)
(* document's result once settled, the temporary files on disk and the     *)
(* answer.  Dates, sizes and processing times are left out.                *)
(***************************************************************************)
\* The most uploads in one request.
MaxUploads == 3

\* text.replace(/\r\n/g, '\n')
RECURSIVE normalizeLineEndings(_)
normalizeLineEndings(s) ==
  IF s = <<>> THEN <<>>
  ELSE IF Len(s) >= 2 /\ s[1] = "\r" /\ s[2] = "\n"
       THEN <<"\n">> \o normalizeLineEndings(SubSeq(s, 3, Len(s)))
       ELSE <<s[1]>> \o normalizeLineEndings(Tail(s))

\* The length of the run of c that s starts with.
RECURSIVE runLength(_, _)
runLength(s, c) ==
  IF s = <<>> THEN 0
  ELSE IF s[1] = c THEN 1 + runLength(Tail(s), c) ELSE 0

\* text.replace(/\n{3,}/g, '\n\n') is collapseRuns(text, "\n", 2) and
\* text.replace(/ {2,}/g, ' ') is collapseRuns(text, " ", 1).
RECURSIVE collapseRuns(_, _, _)
collapseRuns(s, c, kept) ==
  IF s = <<>> THEN <<>>
  ELSE IF runLength(s, c) > kept
       THEN [i \in 1..kept |-> c]
              \o collapseRuns(SubSeq(s, runLength(s, c) + 1, Len(s)), c, kept)
       ELSE <<s[1]>> \o collapseRuns(Tail(s), c, kept)

\* text.split('\n'), line being the line read so far
RECURSIVE splitLines(_, _)
splitLines(s, line) ==
  IF s = <<>> THEN <<line>>
  ELSE IF s[1] = "\n" THEN <<line>> \o splitLines(Tail(s), <<>>)
       ELSE splitLines(Tail(s), Append(line, s[1]))

\* lines.map(line => line.trim())
trimLines(lines) == [i \in DOMAIN lines |-> trim(lines[i])]

\* cleanExtractedText(text)
cleanExtractedText(text) ==
  IF text = <<>> THEN <<>>
  ELSE trim(join(trimLines(splitLines(
              collapseRuns(collapseRuns(normalizeLineEndings(text), "\n", 2), " ", 1),
              <<>>)),
            <<"\n">>))

\* filename.split('.').pop(), looking for the last dot from index i down
RECURSIVE lastSegment(_, _)
lastSegment(filename, i) ==
  IF i = 0 THEN filename
  ELSE IF filename[i] = "." THEN SubSeq(filename, i + 1, Len(filename))
       ELSE lastSegment(filename, i - 1)

\* What an extraction gives: the text and the page count, or the Error thrown.
Extracted(text, pages) == [threw |-> FALSE, text |-> text, pages |-> pages, message |-> ""]
ExtractionError(message) == [threw |-> TRUE, text |-> <<>>, pages |-> <<>>, message |-> message]

\* extractFromPDF, extractFromDOCX, extractFromTXT: a buffer holds bytes of
\* some format; pdf-parse and mammoth reject the bytes of another format,
\* and toString('utf-8') decodes any.
extractFromPDF(buffer) ==
  IF buffer.format = "pdf" THEN Extracted(buffer.text, <<buffer.pages>>)
  ELSE ExtractionError("Failed to extract PDF")
extractFromDOCX(buffer) ==
  IF buffer.format = "docx" THEN Extracted(buffer.text, <<>>)
  ELSE ExtractionError("Failed to extract DOCX")
extractFromTXT(buffer) == Extracted(buffer.raw, <<>>)

\* extractText(buffer, filename)
extractText(buffer, filename) ==
  LET extension == toLowerCase(lastSegment(filename, Len(filename)))
  IN CASE extension = <<"p","d","f">> -> extractFromPDF(buffer)
       [] extension \in {<<"d","o","c","x">>, <<"d","o","c">>} -> extractFromDOCX(buffer)
       [] OTHER -> extractFromTXT(buffer)

\* fs.readFileSync(path) and fs.unlinkSync(path) on the temporary files on
\* disk: both throw for a file that is not there.
readFileSync(fs, file) == [threw |-> file.filepath \notin fs, buffer |-> file.buffer]
unlinkSync(fs, filepath) == [threw |-> filepath \notin fs, fs |-> fs \ {filepath}]

\* The finally block of processDocument: the unlink, its error ignored.
cleanUp(fs, file) == unlinkSync(fs, file.filepath).fs

\* JSON.parse of the options field; an absent field gives {}.
OptionsObject(flagPrivilege) ==
  [t |-> "object", redactPII |-> <<>>, redactPHI |-> <<>>,
   flagPrivilege |-> flagPrivilege, flagConfidentiality |-> <<>>]
JSONparse(s) ==
  CASE s = "{\"flagPrivilege\":false}" -> [threw |-> FALSE, value |-> OptionsObject(<<FALSE>>)]
    [] s = "null" -> [threw |-> FALSE, value |-> JsNull]
    [] OTHER -> [threw |-> TRUE, value |-> JsUndefined]
parseOptions(options) ==
  IF options = <<>> THEN [threw |-> FALSE, value |-> OptionsObject(<<>>)]
  ELSE JSONparse(options[1])

\* for (const flag of flags) grouped[flag.type] = (grouped[flag.type] || 0) + 1
RECURSIVE groupByType(_, _, _)
groupByType(flags, i, grouped) ==
  IF i > Len(flags) THEN grouped
  ELSE groupByType(flags, i + 1,
                   Put(grouped, flags[i].type, Get(grouped, flags[i].type, 0) + 1))

\* The entry of a document that failed: the catch block of processDocument.
failed(file, message) ==
  [success |-> FALSE, filename |-> file.originalFilename, error |-> message]

\* The entry of a document that was processed, given what redactText,
\* flagSensitiveContent and quickHIPAACheck returned.
succeeded(file, extracted, redactionResult, flaggingResult, hipaaCheck) ==
  [success |-> TRUE,
   filename |-> file.originalFilename,
   pages |-> extracted.pages,
   summary |-> [totalRedactions |-> Len(redactionResult.redactions),
                redactionsByType |-> redactionResult.summary,
                totalFlags |-> Len(flaggingResult.flags),
                flagsByType |-> groupByType(flaggingResult.flags, 1, EmptyObject),
                riskLevel |-> Get(flaggingResult.summary, riskLevel, "undefined"),
                hipaaRiskLevel |-> hipaaCheck.riskLevel],
   redactions |-> redactionResult.redactions,
   flags |-> flaggingResult.flags,
   hipaaCheck |-> hipaaCheck]

\* processDocument from the call of redactText on: the annotations of the
\* cleaned text.  Reading a property of options throws when options is null.
annotated(file, extracted, redactionResult, flaggingResult) ==
  IF redactionResult.threw THEN failed(file, "redactText threw")
  ELSE succeeded(file, extracted, redactionResult, flaggingResult,
                 quickHIPAACheck(redactionResult.redactions, flaggingResult.flags))

annotate(file, extracted, text, options, li) ==
  IF options.t = "null"
  THEN [result |-> failed(file, "Cannot read properties of null"), lastIndex |-> li]
  ELSE LET redactionResult ==
             redactText(JsString(text),
                        [redactPII |-> <<Default(options.redactPII, TRUE) # FALSE>>,
                         redactPHI |-> <<Default(options.redactPHI, TRUE) # FALSE>>,
                         customPatterns |-> <<>>],
                        li)
           flaggingResult ==
             flagSensitiveContent(JsString(text),
                        [flagPrivilege |-> <<Default(options.flagPrivilege, TRUE) # FALSE>>,
                         flagPHI |-> <<>>,
                         flagConfidentiality |-> <<Default(options.flagConfidentiality, TRUE) # FALSE>>,
                         flagRiskyTerms |-> <<>>])
       IN [result |-> annotated(file, extracted, redactionResult, flaggingResult),
           lastIndex |-> redactionResult.lastIndex]

\* processDocument up to its await: the file is read and the extraction
\* started; a read that throws settles the document at once.
processDocumentStart(file, fs) ==
  IF readFileSync(fs, file).threw
  THEN [result |-> <<failed(file, "ENOENT")>>, fs |-> cleanUp(fs, file)]
  ELSE [result |-> <<>>, fs |-> fs]

\* Variant of processDocumentResume that removes the temporary file at the
\* end of the try block only.
processDocumentResumeKeeping(file, options, fs, li) ==
  LET extracted == extractText(file.buffer, Default(file.originalFilename, <<"d","o","c","u","m","e","n","t",".","t","x","t">>))
  IN IF extracted.threw
     THEN [result |-> failed(file, extracted.message), fs |-> fs, lastIndex |-> li]
     ELSE LET a == annotate(file, extracted, cleanExtractedText(extracted.text), options, li)
          IN [result |-> a.result,
              fs |-> IF a.result.success THEN cleanUp(fs, file) ELSE fs,
              lastIndex |-> a.lastIndex]

\* processDocument from its await on: the extraction has settled, the text
\* is cleaned and annotated, the entry returned and the finally block run.
processDocumentResume(file, options, fs, li) ==
  LET extracted == extractText(file.buffer, Default(file.originalFilename, <<"d","o","c","u","m","e","n","t",".","t","x","t">>))
  IN IF extracted.threw
     THEN [result |-> failed(file, extracted.message), fs |-> cleanUp(fs, file), lastIndex |-> li]
     ELSE LET a == annotate(file, extracted, cleanExtractedText(extracted.text), options, li)
          IN [result |-> a.result, fs |-> cleanUp(fs, file), lastIndex |-> a.lastIndex]

\* uploadedFiles.map(file => processDocument(file, options)): the documents
\* are started in the order of the upload, from document i on.
RECURSIVE startAll(_, _, _, _)
startAll(files, i, results, fs) ==
  IF i > Len(files) THEN [results |-> results, fs |-> fs]
  ELSE LET started == processDocumentStart(files[i], fs)
       IN startAll(files, i + 1, Append(results, started.result), started.fs)

\* riskDistribution[risk] = (riskDistribution[risk] || 0) + 1
counted(distribution, risk) ==
  Put(distribution, risk, Get(distribution, risk, 0) + 1)
NoRisk == Put(Put(Put(EmptyObject, "HIGH", 0), "MEDIUM", 0), "LOW", 0)

\* The loop of calculateAggregateStats over the successful results.
RECURSIVE aggregateLoop(_, _, _)
aggregateLoop(successful, i, acc) ==
  IF i > Len(successful) THEN acc
  ELSE LET summary == successful[i].summary
           risk == IF summary.riskLevel = "undefined" THEN "LOW" ELSE summary.riskLevel
       IN aggregateLoop(successful, i + 1,
            [totalRedactions |-> acc.totalRedactions + summary.totalRedactions,
             totalFlags |-> acc.totalFlags + summary.totalFlags,
             riskDistribution |-> counted(acc.riskDistribution, risk),
             hipaaRiskDistribution |-> counted(acc.hipaaRiskDistribution, summary.hipaaRiskLevel)])

\* calculateAggregateStats(results): the counts and the distributions; the
\* totals by type, the averages and the top issues are left out.
aggregateOf(results, successful, totals) ==
  [totalDocuments |-> Len(results),
   successfulDocuments |-> Len(successful),
   failedDocuments |-> Len(SelectSeq(results, LAMBDA r : ~r.success)),
   redactions |-> totals.totalRedactions,
   flags |-> totals.totalFlags,
   riskDistribution |-> totals.riskDistribution,
   hipaaRiskDistribution |-> totals.hipaaRiskDistribution,
   documentsAtRisk |-> [x \in DOMAIN SelectSeq(successful, LAMBDA r : r.summary.riskLevel \in {"HIGH", "MEDIUM"})
                          |-> SelectSeq(successful, LAMBDA r : r.summary.riskLevel \in {"HIGH", "MEDIUM"})[x].filename]]

calculateAggregateStats(results) ==
  aggregateOf(results, SelectSeq(results, LAMBDA r : r.success),
              aggregateLoop(SelectSeq(results, LAMBDA r : r.success), 1,
                            [totalRedactions |-> 0, totalFlags |-> 0,
                             riskDistribution |-> NoRisk, hipaaRiskDistribution |-> NoRisk]))

\* The uploads of a request: a.pdf, a PDF of one page; b.PDF, whose bytes
\* are no PDF; and an upload without a file name, holding plain text.
ValidPdf ==
  [originalFilename |-> << <<"a",".","p","d","f">> >>,
   buffer |-> [format |-> "pdf", pages |-> 1, raw |-> <<"%","P","D","F">>,
               text |-> <<"D","r"," ","C","d"," "," ","a","@","b",".","c","o",";","\r","\n">>]]
CorruptPdf ==
  [originalFilename |-> << <<"b",".","P","D","F">> >>,
   buffer |-> [format |-> "other", pages |-> 0, raw |-> <<"x">>, text |-> <<"x">>]]
Nameless ==
  [originalFilename |-> <<>>,
   buffer |-> [format |-> "other", pages |-> 0,
               raw |-> <<"\n","\n","\n">> \o PrivilegedPatient,
               text |-> <<"\n","\n","\n">> \o PrivilegedPatient]]
Uploads == <<ValidPdf, CorruptPdf, Nameless>>

\* The options field of the form: absent, an object, null, and no JSON.
OptionFields == << <<>>, <<"{\"flagPrivilege\":false}">>, <<"null">>, <<"{">> >>
Methods == {"POST", "GET"}

\* formidable's File for the k-th upload of a field.
fileOf(upload, field, k) ==
  [filepath |-> <<field, k>>, originalFilename |-> upload.originalFilename,
   buffer |-> upload.buffer]

\* What parseForm resolves to: files.files and files.file; a field that
\* holds one file gives the File itself, which the handler wraps in an array
\* (both are the list of one File here), and an absent field is <<>>.
parseForm(req) ==
  [files |-> [k \in DOMAIN req.files |-> fileOf(req.files[k], "files", k)],
   file |-> [k \in DOMAIN req.file |-> fileOf(req.file[k], "file", k)]]

\* files.files || files.file || [], wrapped in an array when one File
uploadedFilesOf(files) ==
  IF files.files # <<>> THEN files.files ELSE files.file

\* The temporary files formidable wrote for the form.
writtenFiles(files) ==
  {files.files[k].filepath : k \in DOMAIN files.files}
    \cup {files.file[k].filepath : k \in DOMAIN files.file}

\* The handler's state.
Handling(phase, status, options, uploadedFiles, results, fs, body) ==
  [op |-> "handler", phase |-> phase, status |-> status, options |-> options,
   uploadedFiles |-> uploadedFiles, results |-> results, fs |-> fs, body |-> body]

NoBody == [aggregate |-> <<>>, documents |-> <<>>]

BatchInit ==
  /\ doc = [files |-> <<>>, file |-> <<>>]
  /\ lastIndex = [id \in RegexIds |-> 0]
  /\ call = Idle

\* The client adds an upload to the request under a form field.
AddUpload(u, field) ==
  /\ call.op = "none"
  /\ Len(doc.files) + Len(doc.file) < MaxUploads
  /\ field = "file" => doc.file = <<>>
  /\ doc' = IF field = "files"
            THEN [doc EXCEPT !.files = Append(@, u)]
            ELSE [doc EXCEPT !.file = Append(@, u)]
  /\ UNCHANGED <<lastIndex, call>>

\* The client starts on another request once the last one is answered.
NewRequest ==
  /\ call.op = "handler"
  /\ call.phase = "answered"
  /\ doc' = [files |-> <<>>, file |-> <<>>]
  /\ call' = Idle
  /\ UNCHANGED lastIndex

\* The handler up to its await of parseForm: 405 for another method than
\* POST; otherwise the form is parsed and its files are written to disk.
Post(method, o) ==
  /\ call.op = "none"
  /\ call' = IF method # "POST"
             THEN Handling("answered", 405, OptionFields[o], <<>>, <<>>, {}, NoBody)
             ELSE Handling("parsed", 0, OptionFields[o], <<>>, <<>>,
                           writtenFiles(parseForm(doc)), NoBody)
  /\ UNCHANGED <<doc, lastIndex>>

\* The handler from the parsed form to its await of Promise.all: 500 when
\* the options are no JSON, 400 when no file was taken, and otherwise every
\* document is started.
Dispatch ==
  /\ call.op = "handler"
  /\ call.phase = "parsed"
  /\ call' = IF parseOptions(call.options).threw
             THEN Handling("answered", 500, call.options, <<>>, <<>>, call.fs, NoBody)
             ELSE IF uploadedFilesOf(parseForm(doc)) = <<>>
             THEN Handling("answered", 400, call.options, <<>>, <<>>, call.fs, NoBody)
             ELSE LET started == startAll(uploadedFilesOf(parseForm(doc)), 1, <<>>, call.fs)
                  IN Handling("processing", 0, call.options,
                              uploadedFilesOf(parseForm(doc)), started.results,
                              started.fs, NoBody)
  /\ UNCHANGED <<doc, lastIndex>>

\* The extraction of document i settles and its processDocument runs to
\* its end.
Resume(i) ==
  /\ call.op = "handler"
  /\ call.phase = "processing"
  /\ i \in DOMAIN call.results
  /\ call.results[i] = <<>>
  /\ \E r \in {processDocumentResume(call.uploadedFiles[i],
                                     parseOptions(call.options).value, call.fs, lastIndex)} :
        /\ call' = [call EXCEPT !.results[i] = <<r.result>>, !.fs = r.fs]
        /\ lastIndex' = r.lastIndex
  /\ UNCHANGED doc

\* Promise.all resolves once every document has settled: 200 with the
\* aggregate and the entries in the order of the upload.
Respond ==
  /\ call.op = "handler"
  /\ call.phase = "processing"
  /\ \A i \in DOMAIN call.results : call.results[i] # <<>>
  /\ \E results \in {[i \in DOMAIN call.results |-> call.results[i][1]]} :
        call' = [call EXCEPT !.phase = "answered", !.status = 200,
                             !.body = [aggregate |-> <<calculateAggregateStats(results)>>,
                                       documents |-> results]]
  /\ UNCHANGED <<doc, lastIndex>>

\* A temporary file disappears from the disk while the request is handled,
\* which is what the try blocks around the read and the unlink provide for;
\* it is the first file of a field that does.
TempFileLost(filepath) ==
  /\ call.op = "handler"
  /\ call.phase \in {"parsed", "processing"}
  /\ filepath \in call.fs
  /\ call' = [call EXCEPT !.fs = @ \ {filepath}]
  /\ UNCHANGED <<doc, lastIndex>>

BatchNext ==
  \/ \E u \in DOMAIN Uploads, field \in {"files", "file"} : AddUpload(Uploads[u], field)
  \/ NewRequest
  \/ \E method \in Methods, o \in DOMAIN OptionFields : Post(method, o)
  \/ Dispatch
  \/ \E i \in 1..MaxUploads : Resume(i)
  \/ Respond
  \/ \E field \in {"files", "file"} : TempFileLost(<<field, 1>>)

BatchSpec == BatchInit /\ [][BatchNext]_vars

(***************************************************************************)
(* Properties of the redaction pipeline.                                   *)
(***************************************************************************)
\* The last call returned a redaction result.
Redacted == call.op \in {"redactText", "restoreText"}

\* C1: round trip.  Restoring the rewritten text with the annotations of a
\* redactText call made with default options gives back the input text.
RoundTrip ==
  (call.op = "restoreText" /\ call.text.t = "string" /\ call.options = 1)
    => call.restored = call.text.s

\* C2: non-overlap.  The annotations are in ascending start order and every
\* annotation ends strictly before the next one starts, with or without
\* custom patterns.
NonOverlap ==
  Redacted =>
    \A i, j \in DOMAIN call.redactions :
      i < j => /\ call.redactions[i].start < call.redactions[j].start
               /\ call.redactions[i].end < call.redactions[j].start

\* C2 witness: a call with custom patterns in which candidates were merged
\* and more than one annotation came out.
NonOverlapWitness ==
  /\ call.op = "redactText"
  /\ call.options = 2
  /\ Len(call.redactions) >= 2
  /\ Len(call.allMatches) > Len(call.redactions)

\* C3: determinism.  Whatever calls were completed before it, a call returns
\* what the same call returns in a process that has made no call yet (every
\* lastIndex at 0); so two calls with the same text and options agree.
FreshLastIndex == [id \in RegexIds |-> 0]
SameReturn(r) ==
  /\ call.redactedText = r.redactedText
  /\ call.redactions = r.redactions
  /\ call.summary = r.summary
Deterministic ==
  call.op = "redactText"
    => SameReturn(redactText(call.text, RedactOptions[call.options], FreshLastIndex))

\* C3 witness: a repeated call on a document in which patterns matched.
DeterministicWitness ==
  /\ call.op = "redactText"
  /\ call.repeat
  /\ Len(call.redactions) >= 2

\* C4: degenerate input.  For null, undefined, a non-string value or the
\* empty string, redactText returns "", no annotation and an empty summary
\* object, and scans no pattern.
DegenerateRedact ==
  (call.op = "redactText" /\ (call.text.t # "string" \/ call.text.s = <<>>))
    => /\ call.redactedText = <<>>
       /\ call.redactions = <<>>
       /\ call.summary = EmptyObject
       /\ call.scanned = 0

\* C4 witness: a call whose text is the number 42, a truthy non-string.
DegenerateRedactWitness ==
  /\ call.op = "redactText"
  /\ call.text.t = "number"
  /\ call.text.n = 42

\* Candidates i and j of M overlap or touch, differ in priority, and no
\* other candidate overlaps or touches the span they cover.
IsolatedPair(M, i, j) ==
  /\ i # j
  /\ M[i].start <= M[j].start
  /\ M[j].start <= M[i].end
  /\ M[i].priority # M[j].priority
  /\ \A k \in DOMAIN M \ {i, j} :
       M[k].start > Max(M[i].end, M[j].end) \/ M[k].end < M[i].start

\* The annotations that overlap or touch the span [from, to].
AnnotationsOver(from, to) ==
  {r \in DOMAIN call.redactions :
     call.redactions[r].start <= to /\ call.redactions[r].end >= from}

HigherPriority(a, b) == IF a.priority > b.priority THEN a ELSE b

\* C6: priority tie-break for a pair.  Two candidates of different priority
\* that overlap or touch, and nothing else near them, give exactly one
\* annotation; it covers both and has the type and the confidence of the
\* higher-priority candidate, whichever starts first.
PairTieBreak ==
  Redacted =>
    \A i, j \in DOMAIN call.allMatches :
      IsolatedPair(call.allMatches, i, j) =>
        /\ Cardinality(AnnotationsOver(call.allMatches[i].start,
                                       Max(call.allMatches[i].end, call.allMatches[j].end))) = 1
        /\ \A r \in AnnotationsOver(call.allMatches[i].start,
                                    Max(call.allMatches[i].end, call.allMatches[j].end)) :
             /\ call.redactions[r].start = call.allMatches[i].start
             /\ call.redactions[r].end = Max(call.allMatches[i].end, call.allMatches[j].end)
             /\ call.redactions[r].type =
                  HigherPriority(call.allMatches[i], call.allMatches[j]).type
             /\ call.redactions[r].confidence =
                  HigherPriority(call.allMatches[i], call.allMatches[j]).confidence

\* C6 witness: such a pair in which the candidate that starts later has the
\* higher priority and another confidence.
PairTieBreakWitness ==
  /\ call.op = "redactText"
  /\ \E i, j \in DOMAIN call.allMatches :
       /\ IsolatedPair(call.allMatches, i, j)
       /\ call.allMatches[i].start < call.allMatches[j].start
       /\ call.allMatches[j].priority > call.allMatches[i].priority
       /\ call.allMatches[j].confidence # call.allMatches[i].confidence

\* The 1-based rank of annotation i among the annotations of its type, in
\* ascending start order.
RankInType(i) ==
  Cardinality({j \in DOMAIN call.redactions :
                 /\ call.redactions[j].type = call.redactions[i].type
                 /\ call.redactions[j].start <= call.redactions[i].start})

\* C7: annotation ids.  Every id is "<type>#<n>" with the annotation's final
\* type and n its rank among the annotations of that type; ids are distinct
\* and a type with k annotations uses exactly the numbers 1..k.
AnnotationIds ==
  Redacted =>
    /\ \A i \in DOMAIN call.redactions :
         call.redactions[i].id =
           call.redactions[i].type \o <<"#">> \o numeral(RankInType(i))
    /\ \A i, j \in DOMAIN call.redactions :
         i # j => call.redactions[i].id # call.redactions[j].id
    /\ \A i \in DOMAIN call.redactions :
         {RankInType(j) : j \in {x \in DOMAIN call.redactions :
                                   call.redactions[x].type = call.redactions[i].type}}
           = 1..Cardinality({x \in DOMAIN call.redactions :
                               call.redactions[x].type = call.redactions[i].type})

\* C7 witness: annotations of two types, the second one in the list being
\* the first of its type, and a type with two annotations.
AnnotationIdsWitness ==
  /\ call.op = "redactText"
  /\ Len(call.redactions) >= 2
  /\ call.redactions[2].type # call.redactions[1].type
  /\ \E i \in DOMAIN call.redactions : RankInType(i) = 2

\* The input text with every annotation's span replaced by its placeholder,
\* built front to back: the text before annotation i that follows the
\* previous annotation, then the placeholder, and after the last annotation
\* the rest of the text.
RECURSIVE Replaced(_, _, _, _)
Replaced(text, redactions, i, from) ==
  IF i > Len(redactions) THEN sliceFrom(text, from)
  ELSE slice(text, from, redactions[i].start)
         \o Placeholder(redactions[i].id)
         \o Replaced(text, redactions, i + 1, redactions[i].end)

\* C8: offset-preserving rewrite.  redactedText is the input with each
\* annotation's span replaced by "[REDACTED:<id>]" and all other characters
\* kept in place; with no annotation it is the input.
OffsetPreservingRewrite ==
  (Redacted /\ call.text.t = "string")
    => /\ call.redactedText = Replaced(call.text.s, call.redactions, 1, 0)
       /\ call.redactions = <<>> => call.redactedText = call.text.s

\* C8 witness: a rewrite of two annotations whose placeholders differ in
\* length from the spans they replace.
OffsetPreservingRewriteWitness ==
  /\ call.op = "redactText"
  /\ Len(call.redactions) = 2
  /\ \A i \in DOMAIN call.redactions :
       Len(Placeholder(call.redactions[i].id))
         # call.redactions[i].end - call.redactions[i].start

(***************************************************************************)
(* Properties of the flagging pipeline.                                    *)
(***************************************************************************)
\* The last call returned a flagging result.
Flagged == call.op = "flagSensitiveContent"

\* C5: degenerate input to flagging.  For null, undefined, a non-string value
\* or the empty string, flagSensitiveContent returns an empty flags list and
\* an empty summary object: no total, highSeverity or riskLevel key.
DegenerateFlag ==
  (Flagged /\ (call.text.t # "string" \/ call.text.s = <<>>))
    => /\ call.flags = <<>>
       /\ call.summary.keys = <<>>
       /\ ~Has(call.summary, total)
       /\ ~Has(call.summary, highSeverity)
       /\ ~Has(call.summary, riskLevel)

\* C5 witness: a call whose text is the empty string.
DegenerateFlagWitness ==
  /\ Flagged
  /\ call.text.t = "string"
  /\ call.text.s = <<>>

\* A raw candidate that findKeywordMatches pushed.
IsKeywordHit(h) == slice(h.reason, 0, Len(ContainsKeyword)) = ContainsKeyword

\* The PRIVILEGE keyword hits among the raw candidates of the last call.
PrivilegeHits ==
  {a \in DOMAIN call.allFlags :
     call.allFlags[a].type = PRIVILEGE /\ IsKeywordHit(call.allFlags[a])}

\* The final flags a candidate can have ended up in: those of its type that
\* start at or before it; the one it is in is the last of them.
FlagsBefore(h) ==
  {i \in DOMAIN call.flags :
     call.flags[i].type = h.type /\ call.flags[i].start <= h.position}
FlagOf(h) == MaxOf(FlagsBefore(h))

\* How many times sub occurs in s.
Occurrences(s, sub) ==
  Cardinality({i \in 0..(Len(s) - Len(sub)) : SubSeq(s, i + 1, i + Len(sub)) = sub})

\* C9: flag merge window.  Any two PRIVILEGE keyword hits whose positions are
\* within 50 characters of each other end up in one single flag, whose reason
\* lists the reason of each exactly once, also when a hit of another category
\* lies between the two.
MergeWindow ==
  Flagged =>
    \A a, b \in PrivilegeHits :
      Abs(call.allFlags[a].position - call.allFlags[b].position) <= mergeDistance
        => /\ FlagOf(call.allFlags[a]) = FlagOf(call.allFlags[b])
           /\ Occurrences(call.flags[FlagOf(call.allFlags[a])].reason,
                          call.allFlags[a].reason) = 1
           /\ Occurrences(call.flags[FlagOf(call.allFlags[a])].reason,
                          call.allFlags[b].reason) = 1

\* The final flags of severity HIGH.
HighFlags == {i \in DOMAIN call.flags : call.flags[i].severity = "HIGH"}

\* C10: risk level.  For a non-empty string, summary.highSeverity is the
\* number of final flags of severity HIGH, and summary.riskLevel is "HIGH"
\* iff that number exceeds 3, "MEDIUM" iff it is 1, 2 or 3, "LOW" iff it is 0.
RiskLevel ==
  (Flagged /\ call.text.t = "string" /\ call.text.s # <<>>)
    => /\ call.summary.val[highSeverity] = Cardinality(HighFlags)
       /\ (call.summary.val[riskLevel] = "HIGH") <=> (Cardinality(HighFlags) > 3)
       /\ (call.summary.val[riskLevel] = "MEDIUM") <=> (Cardinality(HighFlags) \in 1..3)
       /\ (call.summary.val[riskLevel] = "LOW") <=> (Cardinality(HighFlags) = 0)

\* C10 witness: a call that returned exactly 4 flags of severity HIGH among
\* others of lower severity.
RiskLevelWitness ==
  /\ Flagged
  /\ call.text.t = "string"
  /\ Cardinality(HighFlags) = 4
  /\ Len(call.flags) > 4
  /\ call.summary.val[riskLevel] = "HIGH"

(***************************************************************************)
(* Properties of the options of redactText.                                *)
(***************************************************************************)
\* C11: redaction option gates.  A call with redactPII and redactPHI set to
\* false (and no custom patterns) produces no annotation from the built-in
\* EMAIL pattern, an identifier of the gated groups.
GatedRedaction ==
  (call.op = "redactText" /\ call.options = 3)
    => \A i \in DOMAIN call.redactions : call.redactions[i].type # EMAIL


(***************************************************************************)
(* Properties of the options of flagSensitiveContent.                      *)
(***************************************************************************)
\* The flag types a gate set to false rules out.
GatedTypes(options) ==
  (IF options.flagPrivilege = <<FALSE>> THEN {PRIVILEGE} ELSE {})
    \cup (IF options.flagPHI = <<FALSE>> THEN {PHI} ELSE {})
    \cup (IF options.flagConfidentiality = <<FALSE>> THEN {CONFIDENTIALITY} ELSE {})
    \cup (IF options.flagRiskyTerms = <<FALSE>> THEN {RISKY_CLAUSE, INDEMNIFICATION} ELSE {})

\* The candidates of a call with every gate open, without those of the types in gated.
Ungated(candidates, gated) == SelectSeq(candidates, LAMBDA f : f.type \notin gated)

\* The candidates the text gives with every gate open.
OpenCandidates(text) == flagPatternsLoop(text, {}, 1) \o detectRiskyClauses(text)

\* C12: flagging option gates.  No returned flag has a type whose gate is
\* false (PRIVILEGE, PHI, CONFIDENTIALITY; RISKY_CLAUSE and INDEMNIFICATION
\* for flagRiskyTerms), and the candidates and flags of the other types are
\* those the same text gives with every gate open once the gated types'
\* candidates are left out.
GatedFlags ==
  (Flagged /\ call.text.t = "string" /\ GatedTypes(FlagOptions[call.options]) # {}) =>
    /\ \A i \in DOMAIN call.flags :
         call.flags[i].type \notin GatedTypes(FlagOptions[call.options])
    /\ \E open \in {Ungated(OpenCandidates(call.text.s),
                            GatedTypes(FlagOptions[call.options]))} :
         /\ call.allFlags = open
         /\ call.flags = formatFlags(mergeDuplicateFlags(open))

\* C12 witness: a call with flagPHI and flagConfidentiality false on a text
\* with a PHI keyword returned a PRIVILEGE flag.
GatedFlagsWitness ==
  /\ Flagged
  /\ call.options = 3
  /\ call.text.t = "string"
  /\ includes(toLowerCase(call.text.s), <<"p","a","t","i","e","n","t">>)
  /\ \E i \in DOMAIN call.flags : call.flags[i].type = PRIVILEGE


(***************************************************************************)
(* Properties of the validators.                                           *)
(***************************************************************************)
\* The length of a card number as the documents write it.
CardLength == 16

\* The k-th digit from the right of a digit string, doubled when k is even,
\* minus 9 when the double is above 9.
LuhnTerm(digits, k) ==
  LET d == DigitValue(digits[Len(digits) + 1 - k])
  IN IF k % 2 = 1 THEN d ELSE IF 2 * d > 9 THEN 2 * d - 9 ELSE 2 * d

RECURSIVE LuhnTotal(_, _)
LuhnTotal(digits, k) == IF k = 0 THEN 0 ELSE LuhnTerm(digits, k) + LuhnTotal(digits, k - 1)

LuhnValid(digits) ==
  /\ Len(digits) >= 13
  /\ Len(digits) <= 19
  /\ LuhnTotal(digits, Len(digits)) % 10 = 0

\* The offsets of the text where a run of CardLength digits stands on its
\* own, which is where the CREDIT_CARD pattern matches.
CardOffsets(text) ==
  {s \in 0..(Len(text) - CardLength) :
     /\ \A k \in 1..CardLength : IsDigit(text[s + k])
     /\ (s = 0 \/ ~IsWordChar(text[s]))
     /\ (s + CardLength = Len(text) \/ ~IsWordChar(text[s + CardLength + 1]))}

CardCandidates(s) ==
  {i \in DOMAIN call.allMatches :
     /\ call.allMatches[i].type = CREDIT_CARD
     /\ call.allMatches[i].start = s
     /\ call.allMatches[i].end = s + CardLength}

CardAnnotations(s) ==
  {i \in DOMAIN call.redactions :
     /\ call.redactions[i].type = CREDIT_CARD
     /\ call.redactions[i].start <= s
     /\ call.redactions[i].end >= s + CardLength}

\* C13: Luhn gate.  A CREDIT_CARD candidate is emitted for a match of the
\* card pattern iff its digits number 13 to 19 and their Luhn sum is 0 mod 10:
\* a card number with a valid checksum gives exactly one CREDIT_CARD
\* candidate and one CREDIT_CARD annotation, one with an invalid checksum
\* gives none, and no other CREDIT_CARD candidate exists.
LuhnGate ==
  (Redacted /\ call.text.t = "string") =>
    /\ \A s \in CardOffsets(call.text.s) :
         \E n \in {IF LuhnValid(slice(call.text.s, s, s + CardLength)) THEN 1 ELSE 0} :
            /\ Cardinality(CardCandidates(s)) = n
            /\ Cardinality(CardAnnotations(s)) = n
    /\ \A i \in DOMAIN call.allMatches :
         call.allMatches[i].type = CREDIT_CARD
           => /\ call.allMatches[i].start \in CardOffsets(call.text.s)
              /\ LuhnValid(stripNonDigits(call.allMatches[i].original))

\* C13 witness: a call on a text with a valid and an invalid card number
\* returned one CREDIT_CARD annotation.
LuhnGateWitness ==
  /\ call.op = "redactText"
  /\ doc = <<InvalidCardNumber, CardNumber>>
  /\ Cardinality(CardOffsets(call.text.s)) = 2
  /\ Cardinality({i \in DOMAIN call.redactions : call.redactions[i].type = CREDIT_CARD}) = 1


(***************************************************************************)
(* Properties of the summary of redactText.                                *)
(***************************************************************************)
\* The sum of the summary's entries from the i-th key on, the total left out.
RECURSIVE SumOfCounts(_, _)
SumOfCounts(summary, i) ==
  IF i > Len(summary.keys) THEN 0
  ELSE (IF summary.keys[i] = totalRedactions THEN 0 ELSE summary.val[summary.keys[i]])
         + SumOfCounts(summary, i + 1)

AnnotationsOfType(type) == {j \in DOMAIN call.redactions : call.redactions[j].type = type}

\* C14: redaction summary.  For a non-empty string, the summary holds under
\* the lower-cased name of every type among the annotations the number of
\* annotations of that type, and totalRedactions is the number of annotations
\* and the sum of the per-type counts.
SummaryCounts ==
  (Redacted /\ call.text.t = "string" /\ call.text.s # <<>> /\ ~call.threw) =>
    /\ \A i \in DOMAIN call.redactions :
         /\ Has(call.summary, toLowerCase(call.redactions[i].type))
         /\ Get(call.summary, toLowerCase(call.redactions[i].type), 0)
              = Cardinality(AnnotationsOfType(call.redactions[i].type))
    /\ Get(call.summary, totalRedactions, 0) = Len(call.redactions)
    /\ SumOfCounts(call.summary, 1) = Len(call.redactions)


(***************************************************************************)
(* Properties of the failure modes of redactText.                          *)
(***************************************************************************)
\* The candidates the built-in patterns give on the text of the call.
BuiltInCandidates ==
  redactText(call.text, CustomOptions[1], FreshLastIndex).allMatches

\* C15: validator exceptions.  A call whose custom validator throws on one
\* candidate is not aborted: the candidate counts as rejected and the
\* candidates of every other pattern are emitted.
ValidatorExceptions ==
  (call.op = "redactText" /\ call.options = 3) =>
    /\ ~call.threw
    /\ \A i \in DOMAIN BuiltInCandidates :
         \E j \in DOMAIN call.allMatches : call.allMatches[j] = BuiltInCandidates[i]

\* The caller's patterns hold one whose matcher is no RegExp.
HasMalformedPattern(options) ==
  \E k \in DOMAIN Default(options.customPatterns, <<>>) :
     ~IsRegExp(Default(options.customPatterns, <<>>)[k].regex)

\* C16: invalid custom pattern.  A matcher that is no usable compiled pattern
\* is turned down when it is added with addCustomPattern, so that no call of
\* redactText fails on one in the middle of its scan, once the built-in
\* patterns have been scanned and with their candidates lost.
InvalidCustomPattern ==
  (call.op = "redactText" /\ HasMalformedPattern(CustomOptions[call.options]))
    => ~call.threw


(***************************************************************************)
(* Properties of mergeOverlaps.                                            *)
(***************************************************************************)
\* The candidates merged into the i-th annotation: those inside its span.
Contributors(i) ==
  {j \in DOMAIN call.allMatches :
     /\ call.redactions[i].start <= call.allMatches[j].start
     /\ call.allMatches[j].end <= call.redactions[i].end}

\* C19: merged label.  Every annotation carries the type and the confidence
\* of a candidate of the highest priority among the candidates merged into
\* its span, in whatever order their starts and priorities come.
MergedLabel ==
  (Redacted /\ ~call.threw) =>
    \A i \in DOMAIN call.redactions :
      \E j \in Contributors(i) :
         /\ \A k \in Contributors(i) :
              call.allMatches[k].priority <= call.allMatches[j].priority
         /\ call.redactions[i].type = call.allMatches[j].type
         /\ call.redactions[i].confidence = call.allMatches[j].confidence


\* The annotations whose span the j-th candidate lies inside.
SpansAround(j) ==
  {i \in DOMAIN call.redactions :
     /\ call.redactions[i].start <= call.allMatches[j].start
     /\ call.allMatches[j].end <= call.redactions[i].end}

\* Some candidate merged into the i-th annotation covers the character at offset p.
Covered(i, p) ==
  \E j \in Contributors(i) :
     call.allMatches[j].start <= p /\ p < call.allMatches[j].end

\* C20: minimal maximal spans.  The spans of the annotations are the
\* connected components of the candidates under overlap or touch: every
\* candidate lies inside exactly one span, every span runs from the least
\* start to the greatest end of the candidates inside it and these leave no
\* gap in it, and no two spans overlap or touch.
MaximalSpans ==
  (Redacted /\ ~call.threw) =>
    /\ \A j \in DOMAIN call.allMatches : Cardinality(SpansAround(j)) = 1
    /\ \A i \in DOMAIN call.redactions :
         /\ \E j \in Contributors(i) : call.allMatches[j].start = call.redactions[i].start
         /\ \E j \in Contributors(i) : call.allMatches[j].end = call.redactions[i].end
         /\ \A p \in call.redactions[i].start..(call.redactions[i].end - 1) : Covered(i, p)
    /\ \A i, k \in DOMAIN call.redactions :
         i < k => call.redactions[i].end < call.redactions[k].start

\* C20 witness: a span made of three candidates, one of them ending before
\* the span does, next to another span.
MaximalSpansWitness ==
  /\ call.op = "redactText"
  /\ Len(call.redactions) >= 2
  /\ \E i \in DOMAIN call.redactions :
       /\ Cardinality(Contributors(i)) >= 3
       /\ \E j \in Contributors(i) : call.allMatches[j].end < call.redactions[i].end


(***************************************************************************)
(* Properties of the HIPAA report.                                         *)
(***************************************************************************)
\* C17: HIPAA compliance score.  The score of a report lies in 0..100, the
\* grade is the one that goes with that score (A from 90, B from 80, C from
\* 70, D from 60, F below) and a report on no annotations and no flags
\* scores above 90.
ComplianceScore ==
  call.op = "generateHIPAAReport" =>
    \E score \in {call.report.complianceScore.score},
       grade \in {call.report.complianceScore.grade} :
       /\ score \in 0..100
       /\ grade \in {"A", "B", "C", "D", "F"}
       /\ grade = "A" <=> score >= 90
       /\ grade = "B" <=> (score >= 80 /\ score < 90)
       /\ grade = "C" <=> (score >= 70 /\ score < 80)
       /\ grade = "D" <=> (score >= 60 /\ score < 70)
       /\ grade = "F" <=> score < 60
       /\ (doc.redactions = <<>> /\ doc.flags = <<>>) => score > 90

\* C17 witness: a report on annotations of no critical category and no PHI
\* flag, whose score of 100 plus the bonus of 5 is clamped to 100.
ComplianceScoreWitness ==
  /\ call.op = "generateHIPAAReport"
  /\ doc.redactions # <<>>
  /\ call.report.summary.criticalFindings = 0
  /\ \A i \in DOMAIN doc.flags : doc.flags[i].type # PHI
  /\ call.report.complianceScore.score = 100
  /\ call.report.complianceScore.grade = "A"

\* The HIPAA categories of severity CRITICAL that an annotation handed in falls under.
CriticalCategories ==
  {k \in DOMAIN HIPAA_PHI_CATEGORIES :
     /\ HIPAA_PHI_CATEGORIES[k].severity = "CRITICAL"
     /\ \E i \in DOMAIN doc.redactions :
          doc.redactions[i].type \in Range(HIPAA_PHI_CATEGORIES[k].redactionTypes)}

PhiFlags == {i \in DOMAIN doc.flags : doc.flags[i].type = PHI}

\* C18: quickHIPAACheck.  riskLevel is HIGH iff an annotation falls under a
\* CRITICAL category, otherwise MEDIUM iff more than 2 flags have type PHI,
\* otherwise LOW; isCompliant holds exactly when riskLevel is LOW, and
\* requiresReview fails exactly when there is no critical category and no
\* PHI flag.
QuickCheckLevels ==
  call.op = "quickHIPAACheck" =>
    /\ call.check.riskLevel = "HIGH" <=> CriticalCategories # {}
    /\ call.check.riskLevel = "MEDIUM" <=> (CriticalCategories = {} /\ Cardinality(PhiFlags) > 2)
    /\ call.check.riskLevel = "LOW" <=> (CriticalCategories = {} /\ Cardinality(PhiFlags) <= 2)
    /\ call.check.isCompliant <=> call.check.riskLevel = "LOW"
    /\ ~call.check.requiresReview <=> (CriticalCategories = {} /\ PhiFlags = {})

\* C18 witness: a check on no critical annotation and exactly 2 PHI flags
\* among others, which is compliant, LOW and yet requires review.
QuickCheckLevelsWitness ==
  /\ call.op = "quickHIPAACheck"
  /\ doc.redactions # <<>>
  /\ CriticalCategories = {}
  /\ Cardinality(PhiFlags) = 2
  /\ Len(doc.flags) > 2
  /\ call.check.riskLevel = "LOW"
  /\ call.check.isCompliant
  /\ call.check.requiresReview


(***************************************************************************)
(* Properties of the annotations as a ledger.                              *)
(***************************************************************************)
\* C21: annotation ledger.  The original stored in every annotation is the
\* input text from the annotation's start (inclusive) to its end
\* (exclusive), also for an annotation merged from candidates whose ends
\* differ.
LedgerConsistency ==
  (Redacted /\ call.text.t = "string" /\ ~call.threw) =>
    \A i \in DOMAIN call.redactions :
      call.redactions[i].original
        = slice(call.text.s, call.redactions[i].start, call.redactions[i].end)


(***************************************************************************)
(* Properties of the flags on contract clauses.                            *)
(***************************************************************************)
\* C29: flag offsets.  Every flag returned for a text T has
\* 0 <= start <= end <= len(T), whether it comes from a keyword, a risky
\* clause or a proximity rule.
FlagOffsets ==
  (Flagged /\ call.text.t = "string") =>
    \A i \in DOMAIN call.flags :
      /\ 0 <= call.flags[i].start
      /\ call.flags[i].start <= call.flags[i].end
      /\ call.flags[i].end <= Len(call.text.s)


\* The candidates of severity HIGH among the raw candidates of the last call.
HighCandidates == {a \in DOMAIN call.allFlags : call.allFlags[a].severity = "HIGH"}

\* C28: severity kept by merging.  Whenever a candidate of severity HIGH was
\* found, a returned flag has severity HIGH, summary.highSeverity is at least
\* 1 and summary.riskLevel is not "LOW".
SeverityKept ==
  (Flagged /\ call.text.t = "string" /\ HighCandidates # {}) =>
    /\ \E i \in DOMAIN call.flags : call.flags[i].severity = "HIGH"
    /\ call.summary.val[highSeverity] >= 1
    /\ call.summary.val[riskLevel] # "LOW"


\* The types among the raw candidates and among the returned flags.
CandidateTypes == {call.allFlags[a].type : a \in DOMAIN call.allFlags}
FlagTypes == {call.flags[i].type : i \in DOMAIN call.flags}

\* C22: categories are never merged.  Every candidate's category has a flag
\* in the result, so candidates of two categories at the same or nearby
\* positions give flags of both, and no flag's reason contains the reason of
\* a candidate of another category.
CategoriesApart ==
  (Flagged /\ call.text.t = "string") =>
    /\ CandidateTypes = FlagTypes
    /\ \A i \in DOMAIN call.flags : \A a \in DOMAIN call.allFlags :
         call.allFlags[a].type # call.flags[i].type
           => ~includes(call.flags[i].reason, call.allFlags[a].reason)

\* C22 witness: candidates of two categories at the same offset, one of
\* them merged with a later candidate of its own category, came out as flags
\* of both categories at that offset.
CategoriesApartWitness ==
  /\ Flagged
  /\ Len(call.flags) < Len(call.allFlags)
  /\ \E a, b \in DOMAIN call.allFlags :
       /\ call.allFlags[a].type # call.allFlags[b].type
       /\ call.allFlags[a].position = call.allFlags[b].position
       /\ \E i, j \in DOMAIN call.flags :
            /\ call.flags[i].type = call.allFlags[a].type
            /\ call.flags[j].type = call.allFlags[b].type
            /\ call.flags[i].start = call.allFlags[a].position
            /\ call.flags[j].start = call.allFlags[a].position
            /\ includes(call.flags[i].reason, <<";", " ">>)


\* C23: flag ids.  The returned flags are in ascending order of start, the
\* i-th of them (from 1) has the id "F<i>", and the ids are given after the
\* merge: there are as many as merged flags, with no gap and no repeat.
FlagIds ==
  (Flagged /\ call.text.t = "string") =>
    /\ \A i \in DOMAIN call.flags : call.flags[i].id = <<"F">> \o numeral(i)
    /\ \A i, j \in DOMAIN call.flags :
         /\ i < j => call.flags[i].start <= call.flags[j].start
         /\ i # j => call.flags[i].id # call.flags[j].id
    /\ Len(call.flags) = Len(mergeDuplicateFlags(call.allFlags))

\* C23 witness: the candidates were found out of position order, some were
\* merged, and three flags or more came out.
FlagIdsWitness ==
  /\ Flagged
  /\ Len(call.flags) >= 3
  /\ Len(call.flags) < Len(call.allFlags)
  /\ \E a, b \in DOMAIN call.allFlags :
       a < b /\ call.allFlags[a].position > call.allFlags[b].position
  /\ call.flags[3].id = <<"F", "3">>


\* The offsets at which word stands as a whole word in lowerText.
WordOffsets(lowerText, word) ==
  {p \in 0..(Len(lowerText) - Len(word)) :
     /\ lowerText[p + 1] = word[1]
     /\ SubSeq(lowerText, p + 1, p + Len(word)) = word
     /\ WordBoundary(lowerText, p)
     /\ WordBoundary(lowerText, p + Len(word))}

\* The pairs of offsets of the rule's two words that are within
\* distance * 6 characters of each other.
QualifyingPairs(lowerText, rule) ==
  {pair \in WordOffsets(lowerText, rule.words[1]) \X WordOffsets(lowerText, rule.words[2]) :
     Abs(pair[2] - pair[1]) <= rule.distance * 6}

\* The raw candidates of the last call that the rule of the category gave.
RuleCandidates(type, rule) ==
  {a \in DOMAIN call.allFlags :
     /\ call.allFlags[a].type = type
     /\ call.allFlags[a].reason = proximityReason(rule)}

\* What the claim says of one rule, given its qualifying pairs and candidates.
RuleHit(pairs, candidates) ==
  /\ pairs = {} <=> candidates = {}
  /\ Cardinality(candidates) <= 1
  /\ \A a \in candidates :
       \E pair \in pairs : call.allFlags[a].position = Min(pair[1], pair[2])

\* C27: proximity rule.  A rule {wordA, wordB, maxDistance} of a category
\* that is switched on gives a candidate iff some occurrence of wordA and
\* some occurrence of wordB are at most maxDistance * 6 characters apart; it
\* gives one candidate at most however many pairs qualify, and the
\* candidate's position is the smaller offset of a qualifying pair.
ProximityRule ==
  (Flagged /\ call.text.t = "string") =>
    \A k \in DOMAIN FLAG_PATTERNS :
      FLAG_PATTERNS[k][1] \notin GatedTypes(FlagOptions[call.options]) =>
        \A r \in DOMAIN FLAG_PATTERNS[k][2].proximityPatterns :
          RuleHit(QualifyingPairs(toLowerCase(call.text.s),
                                  FLAG_PATTERNS[k][2].proximityPatterns[r]),
                  RuleCandidates(FLAG_PATTERNS[k][1],
                                 FLAG_PATTERNS[k][2].proximityPatterns[r]))

\* The rule { words: ['trade', 'secret'], distance: 2 } of CONFIDENTIALITY.
TradeSecretRule == ConfidentialityPattern.proximityPatterns[2]

\* C27 witness: 'trade' twice and then 'secret', the first 'trade' exactly
\* 12 characters before it, gave one candidate at offset 0.
ProximityRuleWitness ==
  /\ Flagged
  /\ call.options = 1
  /\ doc = <<Trade, Trade, Secret>>
  /\ Cardinality(QualifyingPairs(toLowerCase(call.text.s), TradeSecretRule)) = 2
  /\ \E a \in RuleCandidates(CONFIDENTIALITY, TradeSecretRule) :
       call.allFlags[a].position = 0


(***************************************************************************)
(* Properties of the built-in catalog.                                     *)
(***************************************************************************)
\* The types of the built-in patterns.
BuiltInTypes == {REDACTION_PATTERNS[k].type : k \in DOMAIN REDACTION_PATTERNS}

\* C24: the built-in catalog is never mutated.  After any sequence of calls,
\* with or without custom patterns, the catalog has the length, order, types,
\* priorities and validators it started with, and a call that passes no
\* custom pattern scans the built-in patterns only and returns what it
\* returns in a process that has seen no custom pattern.
CatalogUnchanged ==
  /\ Len(call.catalog) = Len(REDACTION_PATTERNS)
  /\ \A k \in DOMAIN call.catalog :
       k \in DOMAIN REDACTION_PATTERNS =>
         /\ call.catalog[k].type = REDACTION_PATTERNS[k].type
         /\ call.catalog[k].priority = REDACTION_PATTERNS[k].priority
         /\ call.catalog[k].validator = REDACTION_PATTERNS[k].validator
  /\ (call.op = "redactText" /\ call.options = 1) =>
       /\ call.scanned \in {0, Len(REDACTION_PATTERNS)}
       /\ \A i \in DOMAIN call.allMatches : call.allMatches[i].type \in BuiltInTypes
       /\ SameReturn(redactText(call.text, CustomOptions[1], FreshLastIndex))

\* C24 witness: a call without custom patterns, right after a call that
\* passed the custom pattern /Cd/g, on a text where that pattern matches.
CatalogUnchangedWitness ==
  /\ call.op = "redactText"
  /\ call.options = 1
  /\ call.previous = 2
  /\ includes(call.text.s, <<"C","d">>)
  /\ call.redactions # <<>>


(***************************************************************************)
(* Properties of the scan loop.                                            *)
(***************************************************************************)
\* C25: scan termination.  For every text and every pattern, built-in or
\* supplied by a caller, with or without the g flag and whether or not it
\* matches the empty string, the loop of findMatches is left after at most
\* len(text) + 1 matches (and as many iterations that push one).
ScanTerminates ==
  call.op = "findMatches" =>
    /\ Len(call.matches) <= Len(Concat(doc)) + 1
    /\ call.iterations = Len(Concat(doc)) + 2 => call.left

(***************************************************************************)
(* Properties of the routing-number validator.                             *)
(***************************************************************************)
\* The digits of a text, in order.
DigitsOf(text) == SelectSeq(text, IsDigit)

\* The text holds word somewhere, whatever the case of its letters.
Mentions(text, word) ==
  \E p \in 0..(Len(text) - Len(word)) :
     \A k \in 1..Len(word) : LowerChar(text[p + k]) = word[k]

\* 3*(d1+d4+d7) + 7*(d2+d5+d8) + (d3+d6+d9) for the nine digits d.
AbaSum(d) ==
  3 * (DigitValue(d[1]) + DigitValue(d[4]) + DigitValue(d[7]))
    + 7 * (DigitValue(d[2]) + DigitValue(d[5]) + DigitValue(d[8]))
    + (DigitValue(d[3]) + DigitValue(d[6]) + DigitValue(d[9]))

\* C26: routing-number validator.  A candidate is accepted iff its text holds
\* exactly 9 digits and either holds "routing" or "aba" in any case or
\* 3*(d1+d4+d7) + 7*(d2+d5+d8) + (d3+d6+d9) is 0 mod 10.
RoutingAccepted ==
  call.op = "validateRoutingNumber" =>
    (call.accepted <=>
       /\ Len(DigitsOf(doc)) = 9
       /\ \/ Mentions(doc, <<"r","o","u","t","i","n","g">>)
          \/ Mentions(doc, <<"a","b","a">>)
          \/ AbaSum(DigitsOf(doc)) % 10 = 0)

\* C26 witness: 021000021, with no context, was accepted on its checksum.
RoutingAcceptedWitness ==
  /\ call.op = "validateRoutingNumber"
  /\ doc = <<"0","2","1","0","0","0","0","2","1">>
  /\ call.accepted

\* The upload is named as a PDF and its bytes are none.
NoPdf(file) ==
  /\ file.originalFilename # <<>>
  /\ toLowerCase(SubSeq(file.originalFilename[1], Len(file.originalFilename[1]) - 3,
                        Len(file.originalFilename[1]))) = <<".","p","d","f">>
  /\ file.buffer.format # "pdf"

\* What document i of the batch has to come to, by its own upload and the
\* options alone: no entry of another document is looked at.
OwnOutcome(i) ==
  LET entry == call.results[i][1]
      file == uploadedFilesOf(parseForm(doc))[i]
  IN /\ entry.filename = file.originalFilename
     /\ entry.success <=>
          ~(\/ NoPdf(file)
            \/ call.options = <<"null">>
            \/ (~entry.success /\ entry.error = "ENOENT"))
     /\ file.filepath \notin call.fs

\* C30: batch isolation.  The documents of a batch settle in any order, and
\* a document that cannot be read, extracted or annotated gets an entry
\* { success: false } of its own while every other document gets the entry
\* its own upload calls for.  No such failure makes the answer a 500: the
\* handler answers 500 only for options that are no JSON and 400 only when
\* it took no file.  The 200 answer has one entry per uploaded file, in the
\* order of the upload, successfulDocuments + failedDocuments =
\* totalDocuments = the number of uploaded files, and the temporary file of
\* every document that has settled is gone from the disk, whether the
\* document succeeded or failed.
BatchIsolation ==
  call.op = "handler" =>
    /\ call.phase = "processing" =>
         \A i \in DOMAIN call.results : call.results[i] # <<>> => OwnOutcome(i)
    /\ call.phase = "answered" =>
         /\ call.status \in {200, 400, 405, 500}
         /\ call.status = 500 => call.options = <<"{">>
         /\ call.status = 400 => doc.files = <<>> /\ doc.file = <<>>
         /\ call.status = 200 =>
              /\ Len(call.body.documents) = Len(uploadedFilesOf(parseForm(doc)))
              /\ Len(call.body.documents) > 0
              /\ \A i \in DOMAIN call.body.documents :
                    /\ call.body.documents[i] = call.results[i][1]
                    /\ OwnOutcome(i)
              /\ call.body.aggregate[1].totalDocuments = Len(call.body.documents)
              /\ call.body.aggregate[1].successfulDocuments
                   + call.body.aggregate[1].failedDocuments
                   = call.body.aggregate[1].totalDocuments
              /\ call.body.aggregate[1].failedDocuments
                   = Cardinality({i \in DOMAIN call.body.documents :
                                     ~call.body.documents[i].success})

\* A batch of three documents is answered: the second failed in extraction,
\* the first and the third were processed, and no temporary file is left.
BatchIsolationWitness ==
  /\ call.op = "handler"
  /\ call.phase = "answered"
  /\ call.status = 200
  /\ Len(call.body.documents) = 3
  /\ call.body.documents[1].success
  /\ ~call.body.documents[2].success
  /\ call.body.documents[2].error = "Failed to extract PDF"
  /\ call.body.documents[3].success
  /\ call.body.aggregate[1].successfulDocuments = 2
  /\ call.body.aggregate[1].failedDocuments = 1
  /\ call.fs = {}
====
